---------------------------- MODULE MCChatStream ----------------------------
(* One reply on each wire, in either order; the worker of the first may     *)
(* still be running when the second begins.                                 *)
EXTENDS ChatStream

=============================================================================
