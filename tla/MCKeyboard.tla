----------------------------- MODULE MCKeyboard ------------------------------
(* An instance of Keyboard for TLC. *)
EXTENDS Keyboard

\* Both control keys, CapsLock, and Del of the cursor block.
MCKey == {<<0, 29>>, <<Prefix1, 29>>, <<0, 58>>, <<Prefix1, 83>>}
MCLEDsOn == {"num_lock"}
=============================================================================
