-------------------------- MODULE MCAutoExtension ---------------------------
(* Small instances of AutoExtension for TLC: a timing that leaves an extension
   time to finish before the lock runs out, and one that does not. *)
EXTENDS AutoExtension

FourOrEight == {4, 8}
Six == {6}
=============================================================================
