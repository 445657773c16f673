--------------------------- MODULE VolumeContract ---------------------------
(***************************************************************************)
(* What a ZFS volume promises to survive a crash: at every instant the     *)
(* disk holds one complete namespace, and it changes by whole operations   *)
(* only.  A namespace maps a path to what is found there: nothing, a       *)
(* directory, or a file with its contents.                                 *)
(***************************************************************************)
EXTENDS Naturals, Sequences

CONSTANTS Path, Contents
VARIABLE durable

Nothing == [kind |-> "none"]
Dir == [kind |-> "dir"]
Empty == [p \in Path |-> Nothing]
Unspecified == [p \in Path |-> [kind |-> "unspecified"]]

(* q lies strictly below p.                                                 *)
Below(p, q) == Len(q) > Len(p) /\ SubSeq(q, 1, Len(p)) = p
Moved(p, q, r) == q \o SubSeq(r, Len(p) + 1, Len(r))

Write == \E p \in Path, c \in Contents : 
             durable' = [durable EXCEPT ![p] = [kind |-> "file", bytes |-> c]]
Remove == \E p \in Path : durable[p] # Nothing /\ durable' = [durable EXCEPT ![p] = Nothing]
MakeDir == \E p \in Path : durable[p] = Nothing /\ durable' = [durable EXCEPT ![p] = Dir]

(* A renamed directory takes everything below it along.                     *)
RenameTo(p, q, moving) ==
    durable' = [r \in Path |->
                  IF \E s \in moving : Moved(p, q, s) = r
                  THEN durable[CHOOSE s \in moving : Moved(p, q, s) = r]
                  ELSE IF r \in moving THEN Nothing ELSE durable[r]]
Rename ==
    \E p, q \in Path :
      /\ durable[p] # Nothing /\ durable[q] = Nothing
      /\ RenameTo(p, q, IF durable[p] # Dir THEN {p}
                        ELSE {p} \cup {r \in Path : Below(p, r) /\ durable[r] # Nothing})

(* restore_snapshot works on the copy in memory alone; nothing is promised  *)
(* about the disk from then on.                                             *)
Restore == durable' = Unspecified

(* A step that changes what is durable.                                     *)
Next ==
    /\ durable # Unspecified /\ durable' # durable
    /\ Restore \/ Write \/ Remove \/ MakeDir \/ Rename

Spec == durable = Empty /\ [][Next]_durable
=============================================================================
