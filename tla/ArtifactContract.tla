--------------------------- MODULE ArtifactContract ---------------------------
(***************************************************************************)
(* What the stages promise about the objects they share: whoever finds an  *)
(* object finds every object it names.  names maps the stored keys to the  *)
(* keys their objects refer to; nothing is ever removed.                   *)
(***************************************************************************)

VARIABLE names

Complete(f) == \A k \in DOMAIN f : f[k] \subseteq DOMAIN f

Init == Complete(names)

\* An object is written or written anew, after everything it names.
PutObject ==
    /\ DOMAIN names \subseteq DOMAIN names'
    /\ Complete(names')

Next == PutObject

Spec == Init /\ [][Next]_names

\* No reader follows a reference to an object that is not there.
NoDangling == Complete(names)

===============================================================================
