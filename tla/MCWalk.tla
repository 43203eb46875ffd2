------------------------------- MODULE MCWalk -------------------------------
(* Every volume of three File Entries in which each directory lists at most two
   children, with self links, cycles, shared and hard-linked entries, blocks
   that are no File Entry, unreadable blocks and unreadable directories. *)
EXTENDS Walk

Three == {0, 1, 2}

FE(cs) == [sector |-> "fe", data |-> "ok", children |-> cs]
Broken(s, d) == [sector |-> s, data |-> d, children |-> << >>]
D(l) == [lba |-> l, is_dir |-> TRUE]
F(l) == [lba |-> l, is_dir |-> FALSE]

Lists ==
    {<< >>}
      \cup {<<D(x)>> : x \in Three} \cup {<<F(x)>> : x \in Three}
      \cup {<<D(x), D(y)>> : x \in Three, y \in Three}
      \cup {<<D(x), F(y)>> : x \in Three, y \in Three}
      \cup {<<F(x), F(x)>> : x \in Three}

Nodes ==
    {FE(cs) : cs \in Lists}
      \cup {Broken("fe", "corrupt"), Broken("fe", "fault"),
            Broken("other", "corrupt"), Broken("unreadable", "fault")}

MCVolumes == [Three -> Nodes]

=============================================================================
