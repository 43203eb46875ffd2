------------------------------ MODULE VfsVolume ------------------------------
(***************************************************************************)
(* What a mounted volume holds and what may be asked of it: the data that  *)
(* the adapter (VfsAdapter) and its promise (VfsService) speak about.      *)
(***************************************************************************)
EXTENDS Naturals, Sequences

CONSTANTS
    Lba, Root,           \* File Entry addresses, state.root_fe_lba
    Names,               \* names of directory entries
    Volumes,             \* the volumes that may be mounted
    Foreign              \* see Request

Kind == {"Dir", "File", "Symlink", "Other"}
Child == [lba : Lba, is_dir : BOOLEAN, name : Names]

(* ft: the kind of the ICB file type; size: the information length; data: what
   read_fe_data makes of the allocation descriptors. *)
Node == [sector : {"fe", "other", "unreadable"}, ft : Kind, size : Nat,
         data : {"ok", "corrupt"}, children : Seq(Child)]

ASSUME RootAssumption == Root \in Lba /\ Foreign \notin Lba
ASSUME NamesAssumption == Names # {}
ASSUME VolumesAssumption == Volumes \subseteq [Lba -> Node]

Ops == {"meta", "extents", "read_dir", "lookup", "read_at", "read_link"}

(* Foreign stands for a FileId that is no 32-bit Opaque one, and for a stream
   other than the default one where the operation takes a stream. *)
Request == [op : Ops, lba : Lba \cup {Foreign}, name : Names]

Refused == [ok |-> FALSE, why |-> "unsupported"]
Failed == [ok |-> FALSE, why |-> "decode"]
Ok(v) == [ok |-> TRUE, value |-> v]

=============================================================================
