------------------------------ MODULE BlobLife ------------------------------
(***************************************************************************)
(* What the programs promise about the life of a blob in the storage,      *)
(* whatever else they do to the tables: it is stored once under an id of   *)
(* its own, listed in file_info at most once, may leave the table again    *)
(* (or never reach it, when the upload breaks off), and is removed only    *)
(* after that.  A removed or dropped blob is never listed again, so no     *)
(* row ever points to a blob that is missing.                              *)
(***************************************************************************)
EXTENDS Naturals, Sequences

VARIABLE life   \* life[id]: what became of the blob with this id

Fates == {"stored", "listed", "dropped", "removed"}

LifeInit == life = <<>>

(* A blob that nobody waits for is dropped from the start. *)
StoreNew == \E fate \in {"stored", "dropped"} : life' = Append(life, fate)

(* The rows of one md5 are deleted together, and what ends with a program  *)
(* is given up together, hence sets of blobs.                              *)
Become(ids, fate) ==
  life' = [id \in DOMAIN life |-> IF id \in ids THEN fate ELSE life[id]]

List(id)   == life[id] = "stored"  /\ Become({id}, "listed")
Remove(id) == life[id] = "dropped" /\ Become({id}, "removed")

GiveUp(ids) == (\A id \in ids : life[id] = "stored") /\ Become(ids, "dropped")
Drop(ids)   == (\A id \in ids : life[id] = "listed") /\ Become(ids, "dropped")

LifeNext ==
  \/ StoreNew
  \/ \E id \in DOMAIN life : List(id) \/ Remove(id)
  \/ \E ids \in SUBSET DOMAIN life : GiveUp(ids) \/ Drop(ids)

LifeSpec == LifeInit /\ [][LifeNext]_life
=============================================================================
