---------------------------- MODULE MCVfsAdapter ----------------------------
(* Three File Entries, the root at 0, on volumes chosen for what the adapter
   has to tell apart: a plain tree with a shared file and a link back to the
   root, a block that is no File Entry or cannot be read and is a directory
   for one parent and not for the other, a root that is not a directory, and
   links, empty files and broken data. *)
EXTENDS VfsAdapter

Three == 0 .. 2
FE(ft, size, data, cs) ==
    [sector |-> "fe", ft |-> ft, size |-> size, data |-> data, children |-> cs]
Dir(cs) == FE("Dir", 2, "ok", cs)
NoFE(s) == [sector |-> s, ft |-> "Other", size |-> 0, data |-> "corrupt", children |-> << >>]
Link(l, d, n) == [lba |-> l, is_dir |-> d, name |-> n]

Vol(a, b, c) == [l \in Three |-> CASE l = 0 -> a [] l = 1 -> b [] l = 2 -> c]

MCVolumes == {
    Vol(Dir(<<Link(1, TRUE, "a"), Link(2, FALSE, "b")>>),
        Dir(<<Link(2, FALSE, "a"), Link(0, TRUE, "a")>>), FE("File", 1, "ok", << >>)),
    Vol(Dir(<<Link(1, TRUE, "a"), Link(2, TRUE, "a")>>),
        NoFE("unreadable"), Dir(<<Link(1, FALSE, "b")>>)),
    Vol(Dir(<<Link(2, TRUE, "a"), Link(1, FALSE, "b")>>),
        NoFE("other"), Dir(<<Link(1, TRUE, "b")>>)),
    Vol(FE("File", 1, "ok", <<Link(0, FALSE, "a"), Link(1, FALSE, "b")>>),
        FE("Symlink", 1, "ok", << >>), FE("Dir", 1, "corrupt", << >>)),
    Vol(Dir(<<Link(1, FALSE, "a"), Link(2, TRUE, "b")>>),
        FE("Symlink", 1, "corrupt", << >>), FE("File", 0, "ok", << >>))}

=============================================================================
