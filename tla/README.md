# A TLA+ verification of udf-forensic

udf-forensic reads UDF volumes (ECMA-167) for forensic work: `udf-core` parses a
volume, `udf-forensic` audits it and reports anomalies, and an optional adapter
mounts it behind the `forensic-vfs` interface. This directory models the parts
of it that hold state, order or failure, checks them with TLC and proves the
ones that matter most with TLAPS.

## The system

| component | source | state | operations | modelled in |
|---|---|---|---|---|
| bootstrap chain | core/src/lib.rs | locals of one call | detect the block size, re-read the anchor, scan the Volume Descriptor Sequence (VDS), resolve the partition, read the File Set Descriptor | `Bootstrap`, `BootstrapProofs` |
| partition maps | core/src/lib.rs | a cursor | parse the map table, classify Type 2 maps | the table in `Scans`, its resolution in `Bootstrap` |
| bootstrap audit | forensic/src/findings.rs | findings | `analyze` up to the tree: a second walk over the bootstrap's descriptors | `BootstrapAudit`, `BootstrapAuditProofs` |
| directory walk | forensic/src/findings.rs | work list, visited set | `walk_directory_tree`, `audit_file_entry` | `Walk`, `WalkProofs`; what it promises in `TreeAudit` |
| VFS adapter | core/src/vfs.rs | one reader, one cache, one mutex | `meta`, `extents`, `read_dir`, `lookup`, `read_at`, `read_link` | `VfsAdapter`, `VfsProofs`; what it promises in `VfsService`; the volumes of both in `VfsVolume` |
| file data | core/src/lib.rs | a buffer | `read_fe_data`, extents, final-block slack | `FileData`, `FileDataProofs`; one access in `VfsAdapter` and `Walk` |
| File Identifier Descriptors (FIDs) | core/src/lib.rs | two cursors over one buffer | `detect_fid_tag_size`, `parse_fids` | `FidParse`, `FidParseProofs`; its reads of the medium in `VfsAdapter` |
| symbolic links, recognition | core/src/lib.rs | a cursor | `decode_symlink_target`, `detect_udf` | `Scans`, `ScansProofs` |
| checksum, CRC, timestamps, characters, wording | | none | pure functions of one buffer | not modelled |

**How they interact.** Everything reads one `Read + Seek`. `analyze` calls the
bootstrap chain, then audits the descriptors the chain used (a second, separate
walk that trusts only the returned `UdfState`), then walks the tree through
`read_dir_at_lba`. The adapter calls the bootstrap chain once in `open`, seeds
its cache with the root, and afterwards serves any number of workers through one
mutex.

**What is hard.** Reads that fail, between any two steps and in any combination
with data that is there; descriptors in any order and number, with addresses and
lengths that come from the image and sums that leave `u32`; graphs with cycles;
a walk that is done twice by different code and has to come out the same;
cursors that step by lengths found in the bytes they step over; and, in the
adapter alone, concurrency: a seek and the read it is for are two steps on a
cursor that all workers share, and a panic of the reader leaves the mutex
poisoned and the cache as it was. There is nothing persistent and no messaging.

## The modules

**`Bootstrap`** has one action per read of the medium, so that each early return
between two reads is a step. `pc` names the function about to run: `probe`
(`detect_block_size`, one candidate `k` at a time), `avdp`, `scan` (one block `i`
of the VDS at a time), `resolve` (the second half of `read_vds_checked`), `fsd`,
`done`. The medium is a size, a set of bad units and the descriptors at their
unit positions; a read ends in `ok`, `eof` or `fault` by `ReadResult`, which is
`seek_read_checked`. Probing only needs `TagLen` units of the anchor's block,
re-reading it needs the whole block: the two may end differently. `failed` is a
history variable. The unchecked addition of `read_fsd_checked` has two outcomes
when it leaves the range, a panic or the wrapped sum, because both builds exist.

**`BootstrapAudit`** extends it with `analyze` up to the tree. It keeps the
reader's variables, so that its invariants can relate the second walk to the
first. Which tags are flawed is a field of the medium.

**`Walk`** is `walk_directory_tree`: `Pop`, `AuditDirectory`, `ListDirectory`,
then one action per child. A volume is a graph whose nodes say what reading
their block gives (`sector`) and what reading their data gives (`data`). `audits`
is the history of successful audits.

**`FileData`** is `read_fe_data` and `fe_slack_nonzero`, each a call of its own
(`op`), one action per read of the medium and one per descriptor that is passed
over. A byte is its position on the medium, so that the buffer tells which bytes
were delivered and in what order. A File Entry holds its parsed fields; the
offsets that differ between the two kinds of File Entry, and between short and
long descriptors, are left out. `read_extent` reads every block of an extent,
also those past the end of the file, and so does the model.

**`FidParse`** is the way from a directory's data to its entries. The buffer is a
function from the offsets at which a FID's tag number stands to the fields found
there, under both readings of the tag: the code's comments call the two layouts a
standard 16-byte tag and an extended 18-byte one, and every field of the second
stands two bytes further on. The halves of the block number are kept apart,
because the high half of one reading is the low half of the other. `DetectSkip`,
`DetectFirst` and `DetectNone` are `detect_fid_tag_size`, the rest `parse_fids`,
one action per way through the loop's body. `entries[n].at`, where an entry was
found, is history.

**`Scans`** holds three scans that are each one cursor, one input and one result:
`parse_partition_maps`, `decode_symlink_target` and `detect_udf`. Tables and
links are bytes there, since what a wrong length makes the code read next is the
point.

**`TreeAudit`** is the abstract specification of the walk: no work list, no
visited set, no order. A directory is known when it is the root or an audited
directory lists it, a file when an audited directory lists it; what is known may
be audited when it can be read, each directory once, until nothing known is left
(`ReturnOk`) or something known cannot be read (`ReturnErr`).

**`VfsService`** is the abstract specification of the adapter, with neither reader
nor mutex nor cache: `Ask`, then `Reply` in one step from the volume, or `Lose`
when the reader panics. `Promised` lists the answers to a request: exactly one as
long as every address the call is about is a File Entry and has never failed to
read; otherwise the degraded ones (a size of zero, the kind the parent's entry
gives, an empty read, a decode error).

**`VfsAdapter`** has one action per lock, seek, read and return of a worker.
`call[w]` holds the locals of the call in progress. A read fails for good, once
(at most `MaxFaults`), or unwinds the worker (`ReaderPanics`, at most
`MaxPanics`), which poisons and frees the mutex.

**`...Proofs`** hold a module's theorems; `NumberLemmas` holds the facts about
numbers they share: least and greatest elements, induction over the naturals,
division that rounds down and up, running sums.

**`MC...`** modules give the constants values; a mutant of a definition stands
before it in its module and is named for the mistake it makes.

## What is checked

| run | question | result |
|---|---|---|
| `bootstrap` | does the chain answer honestly (`HonestAnswer`), does a `UdfState` follow from the descriptors that prevail (`StateDescribesMedium`), is "not UDF" never said of a chain that is there (`NoFalseNegative`), is the second anchor check really unreachable, does the call return | holds |
| `bootstrap_audit` | does the second walk cover what the first used, validate nothing else but the block that ended the sequence (`AuditStaysInBootstrap`), and never fail on its own | holds, coverage only inside the address space (see below) |
| `walk` | does Ok mean the tree was covered, is each directory audited once, is Err an unreadable entry of the tree, does the walk implement `TreeAudit` (`Audits`), does every step bring it nearer to its end (`Advances`), does it end | holds |
| `file_data` | are a file's bytes the recorded bytes of its extents, in order and nothing else (`DataIsContents`), does the buffer stay within the information length, is a file refused only for a reason, is the slack of a regular file what follows its last byte | holds |
| `vfs` | is every read the one that was sought, is the cache true to the volume, does the adapter implement `VfsService` (`Promises`), is a call over after a number of its own steps that nobody else can raise (`CallsBounded`), does every call return | holds |
| `fid_parse` | is a well-formed directory of either layout listed as it was written (`DirectoryListed`), is nothing skipped in a damaged one but what overlaps another descriptor or follows an overrun (`SkipsNothing`), do entries only come from separate descriptors, with unwrapped addresses and names inside the buffer, does every step leave fewer to take (`StepsBounded`) | holds, for directories whose tag size can be told (see below) |
| `scans` | does each map of a table keep its place and speak of its own bytes, is a well-formed link's target what its components say, do names stay in the buffer, is a volume recognised exactly when an NSR descriptor can be reached, does every step leave fewer to take (`StepsBounded`) | holds |
| `bootstrap_root`, `bootstrap_fallback`, `walk_fault`, `file_slack`, `fid_tag` | a sentence of the sources each | violated, see Findings |

### Bounds, and why they are enough

* `bootstrap`: block sizes of 4, 2 and 8 units (the code's four candidates
  differ only in size; three give a candidate that is tried first and wrong, and
  one that is never reached), the anchor at sector 2, `u32` ending at 12 so that
  sums of two LBAs leave it. Every VDS of three blocks over twelve descriptors
  holds every order and repetition of two Partition Descriptors and one Logical
  Volume Descriptor, of two and one, and of either with each terminator; the
  recorded length is three blocks, a block and a quarter, or zero. Each sound
  chain is cut at every length.
* `bootstrap_audit`: sequences of four blocks that begin at LBA 3, 7, 8 and 9
  with `u32` ending at 10, images that end before, at and after them.
* `walk`: every assignment of 32 kinds of node to three addresses. Two-element
  child lists give every graph shape of three nodes with sharing, self links and
  links back to the root; a third child only repeats them.
* `file_data`: blocks of four bytes, so that a length can be zero, a fraction of a
  block, a block, or cross one; every list of up to three extents over nine
  shapes (recorded or not), with every one of nine information lengths below, at
  and above what the extents hold. Three extents give a middle one: what is
  skipped, empty or short has something before and after it.
* `vfs`: two workers, two calls in all, one transient fault, one panic. Calls
  only interact through cache, cursor and mutex, and two calls already run in
  either order and inside each other. The five volumes are listed in
  `MCVfsAdapter` with what each is for.
* `fid_parse`: a u16 has 16 values instead of 65536, so that block numbers below,
  at and above the plausibility bound, and sums that leave a u32 (255), are
  small. Every sequence of up to three out of five descriptors gives each a
  predecessor and a successor; the offsets (28, 36, 38, 4) are the code's, and the
  odd buffers place tags at them, with recorded lengths of zero, of a header and
  beyond the end.
* `scans`: three of ten maps, with the recorded table length three bytes short,
  exact and beyond the sector; three of eleven components, whole and cut by a
  byte; recognition sequences that differ in sectors 16, 17, 18 and 31, so that
  each kind of sector comes before and after each other one.

### The refinements

`Walk` maps its history `audits` to the two sets of `TreeAudit`, the audited
directories and files, shares `vol`, and maps `pc` to the verdict. Under this
mapping `AuditDirectory` and `AuditFile` are steps of the same name, or of
`ReturnErr` when the entry cannot be read, `Finish` is `ReturnOk` and everything
else stutters (an entry audited again, too: a file with two names is audited
twice). Run `walk` checks `Audits`, that is `TreeAudit`'s `Spec`. Nothing outside the tree
is audited under it (`StaysInTree`, which is proved and has no run of its own), and
it says more than the invariants on final states: at each moment what has been audited is
reachable through what was audited before, and once a verdict is given nothing
changes.

`VfsAdapter` maps a worker's `call` to its request while the call is under way and
shares `vol`, `ans` and `hurt` with `VfsService`. Under that mapping the step that
answers is `Reply`, the panic is `Lose`, a failed read is a step of `ReadFails`
(part of `Reply` when the read that fails ends the call) and everything else
stutters. Run `vfs` checks `Promises`, that is `VfsService`'s `Spec`, with two
workers, a fault and a panic. It says in one formula what callers rely on: an
answer does not depend on what was asked before, by whom, or on what a fault left
in the cache about some other address. The abstract specification is about
safety; that calls return is `CallsBounded` and `EveryCallReturns`.

### Fairness

`Bootstrap`, `BootstrapAudit`, `Walk`, `FileData`, `FidParse` and `Scans` are single sequential calls:
weak fairness of the next step says only that a running function keeps running.
With it, `StepsBounded` and `Advances` mean that the calls return: their guards leave
no state before the end without a step.
`VfsAdapter` assumes weak fairness of each worker's own steps inside a call; it
does not assume that anyone calls, that a reader panics, or that the mutex is
fair (`std::sync::Mutex` is not). `EveryCallReturns` still holds because calls
are bounded: with an unbounded supply of calls an unfair mutex may starve a
worker, and nothing in the code prevents it.

### Findings

Shown by a run:

* `core/src/lib.rs:507` (`bootstrap_root`): the root's address is summed
  unchecked, two functions after the File Set Descriptor's is checked for the
  reason given at `lib.rs:468`.
* `core/src/lib.rs:460` (`bootstrap_fallback`): another partition's start stands
  in for a Type 1 map too, and the kind then says Physical.
* `core/src/lib.rs:535` (`fid_tag`): the block number that decides between the two
  FID layouts is plausible below 65536, which the comment equates with a disc of
  128 GB; at 2048 bytes a block it is 128 MB. A directory whose first descriptor
  (as a rule the parent's) lies beyond is read with the wrong tag size: all its
  names, flags and addresses are taken from the wrong bytes. Block 0 behind the
  longer tag is misread as well; `DirectoryListed` is stated for the rest.
* `core/src/lib.rs:1015` (`file_slack`): the "true final block" is that of the
  last recorded extent, cut at the information length's remainder: when the file
  ends in a hole or in an earlier extent, bytes of the file itself are taken for
  slack.
* `forensic/src/findings.rs:389` (`walk_fault`): a directory whose data cannot be
  read is skipped, and the analysis returns Ok.

Met while modelling, without a run of their own:

* `core/src/lib.rs:374`: an image cut before the anchor of its own block size is
  "not UDF" when a smaller candidate's probe could be read, although
  `lib.rs:176` says of that answer that every read succeeded (`HonestAnswer`
  states what does hold).
* `forensic/src/findings.rs:382`: the walk called "breadth-first" at line 367 is
  depth-first: `pop` takes the element pushed last.
* `core/src/vfs.rs:240`: a node has two kinds when its parents disagree about an
  unreadable entry, and the root changes kind when its own File Entry is not a
  directory's and a directory below lists it; the test at `vfs.rs:638` says that
  a node cannot be two kinds. `VfsService` allows exactly these.
* `core/src/lib.rs:573`: behind an 18-byte tag, a FID whose CRC length is 20 or less,
  which no well-formed one is, advances the cursor by 38 bytes, off the 4-byte grid
  that `lib.rs:566` means to stay on, and the descriptors after it are not found.
  `SkipsNothing` leaves such descriptors out.
* `core/src/lib.rs:606`: the comment says that a name out of range is left empty;
  a name that begins in range and ends outside is decoded up to the end.
* `core/src/vfs.rs:410`: the comment says that a link must not allocate past what
  the caller asked for; the whole target is decoded, then cut.
* `AuditCoversBootstrap` is stated for sequences inside the address space: past
  its end the second walk's `saturating_add` stays on the last block where the
  first walk used 64-bit addresses.
* `read_at` answers zero bytes, an end of file, for data that cannot be read:
  `VfsService` promises no more.

## What is proved

**`BootstrapProofs`** proves, for every list of block sizes, every anchor sector,
every width of the addresses and every set of media (any size, any set of bad
units, any descriptors), that the chain keeps its type invariant and that
`HonestAnswer`, `StateDescribesMedium`, `NoFalseNegative` and
`AvdpRecheckUnreachable` always hold. The assumptions are
`CandidatesAssumption` (at least one candidate, none smaller than the tag that
is probed), `NumbersAssumption` and `MediaAssumption` (the fields of a
descriptor are in their ranges). The Volume Descriptor Sequence may have any
length there, where the run knows three blocks. The inductive invariant `IInv`
adds to the properties

* `Surfaced`: while the chain runs nothing has failed but probes that met the
  end of the image, and `anyReadOk` sums up the probes passed. This is what
  makes the answer honest whichever read ends the chain;
* `Anchored`: an accepted block size has the anchor at its place, and the scan
  uses the location and length recorded there;
* `Scanning`, with `Collected`: what the scan has kept is, for each partition
  number and for the Logical Volume Descriptor, the last of the blocks before
  `i`; and when the scan is over, those blocks are the `Window` that the
  properties speak of. The latter needs that the rounded-up number of blocks is
  exactly the number of blocks that begin inside the recorded length
  (`SectorsCover`). `Prevails` draws the conclusion: what `Resolve` computes from
  the map, a lookup or a minimum (`MinOf`), is what the descriptors on the
  medium say.

**`WalkProofs`** proves, for every set of addresses and every set of volumes, finite
or not, that the walk keeps its type invariant and that `StaysInTree`,
`DirectoriesAuditedOnce`, `OkCoversTree` and `ErrIsUnreadableEntry` always hold.
The assumptions are `RootAssumption` (the root is an address) and
`VolumesAssumption` (a block that is no File Entry has no data, a block that
cannot be read has none either), both facts about what reading can yield.
`AuditsAlways` proves that the walk implements `TreeAudit`, and `AdvancesAlways`
that it advances.

None of these invariants is inductive. The inductive invariant `IInv` adds

* `Inside`: what is visited or queued is in the tree, the children in hand are
  the directory's own, and the directories audited are exactly those visited but
  the one about to be audited;
* `Owed`: everything a visited directory lists has been dealt with, is on the
  work list, or belongs to the children still in hand. When the work list is
  empty and nothing is in hand this says that the visited set is closed under
  links, and the tree is the least such set: hence `OkCoversTree`;
* `Readable`: nothing audited so far was unreadable, and an error is about an
  entry of the tree.

The refinement needs one thing that `Inside` does not say, `Known`: what is
visited or queued is the root or listed by a directory that *has been audited*, not
merely by one of the tree. Each step is then mapped by a lemma of its own;
`FinishReturnsOk` is where `Owed` is used again. `Advances` is the argument for
termination without fairness: `visited` grows inside the tree, or the loop moves
on (`Rank`) or has less in hand (`Work`). It holds on infinite trees as well; on
finite ones it leaves room for finitely many steps only.

**`BootstrapAuditProofs`** proves, on top of `BootstrapProofs` and from one more
assumption (`FlawsAssumption`: a medium's flawed tags are recorded per block),
`ATypeOK`, `AuditNeverFails`, `AuditCoversBootstrap` and
`AuditStaysInBootstrap`. The reader's own invariant says what it made of the
blocks; the second walk also relies on their having been readable and on where
the scan stopped. `HasRead` adds that, for the reader. `Follows` says that the
analyzer goes on only with a `UdfState` the reader returned, and `Audits` that it has
validated exactly the anchor and the blocks before its cursor, none of which but
the last ends the sequence: where the reader stopped at a
terminator, a zero tag or the recorded length, the second walk stops at the same
place. So a block it validates beyond those the reader used is the one that carries
that terminator or zero tag, at the end of the window and inside the recorded length
(`Terminates`); of a sequence that runs to its recorded length nothing more is
validated. The saturating sum is the identity inside the address
space, and this is where the hypothesis of `AuditCoversBootstrap` is needed.

**`VfsProofs`** proves, for every set of workers, addresses, names and volumes and
for any bounds on calls, faults and panics, `TypeOK`, `ReadsWhatItSought`,
`CacheIsTrue`, `NothingFabricated`, and the refinement `Promises`. Assumed are
that there are names at all (`NamesAssumption`), that the root is an address and
the request refused before the mutex is about none (`RootAssumption`), that
nobody is no worker (`WorkersAssumption`), that the bounds are numbers
(`BoundsAssumption`) and the shape of a volume (`VolumesAssumption`).
`Mutual` (a call is past the mutex exactly when its worker holds it) makes every
other part of the invariant a statement about one call at a time; `AtTarget` adds
that the cursor stands at the address sought. `CacheSound` bounds each record of
the cache by what the service allows for that address *with what has failed so
far*, and fixes it when nothing has; since `hurt` only grows, a record stays
allowed. `Progress` says the same of what a call has collected, by its stage.
For the refinement each step is mapped: the steps inside a call change neither
request nor answer; a failed read adds to `hurt`; the step that answers is
`Reply`, because `Progress` is then exactly what `Promised` lists; an unwound
call is `Lose`. The service's fairness is none, so there is nothing of liveness
in it.

`NeverLeftLocked`, whoever holds the mutex is inside a call, follows from `Mutual`;
it is proved only, `EveryCallReturns` being what the run checks of it.
`CallsBounded` counts the steps a call can still take, `4n + 11` for a directory of
`n` children when it is about to lock, and needs `Progress` to know that no more
sizes and kinds are collected than there are children (`Reach`). Each action then
has a lemma that the count falls, whatever the cache held and whichever reads
failed; the other workers' counts do not move. The
two together are the safe half of the adapter's liveness: whoever holds the mutex
runs, and gives it back after a bounded number of steps.

**`FidParseProofs`** proves, for any width of the numbers (`HalfBase`) and any set
of directory buffers, `TypeOK`, `SkipsNothing`, `EntriesAreDescriptors` and
`DirectoryListed`. `Detecting` says that the tag size is the one the first
descriptor on the grid gives; `Listed` that each entry is a descriptor's, that
they stand in order and do not overlap, and that what they span ends before the
cursor; `Passed` that every descriptor on the grid and before the cursor that
is free and has an address is among the entries. `DirectoryListed` then needs
that a well-formed directory's descriptors tile the buffer, so that the cursor
meets each of them. `StepsBounded` says that a parse takes at most a step for
every two bytes of the buffer, and two more; `AdvanceIs` gives the least advance, and
`DivisionLess` in `NumberLemmas` that a cursor that moves by a unit has a unit fewer
ahead.

**`FileDataProofs`** proves, for every block size, every position and every list of
allocation descriptors, `TypeOK`, `DataIsContents`, `BufferBounded`,
`NoneIsJustified` and `SlackFollowsFile`. The invariant says at each read how much
has been collected: the bytes of the extents before `ad` and of the `s` blocks
of that extent, cut at the information length (`AtExtent`, `AtBlock`), and that each
of them is the right one (`Contents`). `TakeIs` is the arithmetic of
`read_extent`'s three-way minimum. That offsets agree with those of the whole
file when there is no hole is `SameBefore`, an induction over the
descriptors. For the slack, the invariant only names the block found;
`EndInBlock` shows that, when all extents but the last are whole blocks, the
file's end is as far into the last extent's last block as the information
length is beyond a multiple of the block size.

**`ScansProofs`** proves, for tables, links and recognition sequences of any
content, `TypeOK`, `MapsKeepTheirPlace`, `LinkIsItsComponents`, `NamesInBuffer`,
`RecognisedIfReachable` and `StepsBounded`. Assumed are the types of the inputs and
`NameLenAssumption`. `MapsRead` says that the maps stand one behind the other from
the table's start to the cursor, `LinkRead` that names are in order and end
before the cursor, `SectorsRead` that everything before the cursor was of no
consequence. For `LinkIsItsComponents` the invariant `LinkSaid` says that the
target so far is that of the components before the cursor: each that is kept
since the last reset stands at its place, which is twice the number of kept
components before it. `KeptIsFinite`, `OneMore`, `SaysOneMore`, `SaysReset` and
`SaysNothingMore` say what one component does to that. `Begins`, where components begin, is
defined by a recursive function, of which it has to be shown first that there is
one: `BeginsIs` constructs it as the least set that holds 0 and is closed under
stepping over a component.

### What the proofs changed

* `SlackFollowsFile` used to speak of files whose extents exceed the information
  length by less than a block. The proof of `EndInBlock` does not go through for
  those: a last extent that is too long by a few bytes may begin another block,
  and then the last block has nothing of the file. The lengths of the run had
  hidden this; it now has extents of 5 bytes, with which TLC refutes the
  old form. `Regular` asks instead that extents and file end in the same block.
* `DirectoryListed` and `NamesInBuffer` were stated with filtered sequences. They
  are now stated over positions and indices, which says the same (TLC checked
  the two forms against each other) and can be reasoned about.
* `LinkIsItsComponents` was stated with a chain of components and a filtered
  sequence. It now says of each kept component at which index of the target it
  stands; TLC checked the two forms against each other, too.
* `FirstNamed` looks up a name by index, as the code's loop does.

### Only model-checked

* Liveness: `Returns` of `Bootstrap` and of `Walk`, `EveryCallReturns`. The proof
  system does not do it here. For the walk, the adapter, the FID parser and the
  scans the safe half is proved (`Advances`, `CallsBounded` with
  `NeverLeftLocked`, `StepsBounded`); that a function with a step left takes it is
  fairness, and for the adapter it also takes a mutex that lets a worker in
  (see Fairness). The loops of `BootstrapAudit` and `FileData` run over an
  index below a fixed bound; nothing is stated of their end.
* The violations, naturally.

None of the modules declares a recursive operator. `Before` in `FileData` and
`Begins` in `Scans` are recursive functions and part of properties; what the
proofs need of them is proved from `RunningSum` in `NumberLemmas` and in `BeginsIs`.

## Not modelled

The adapter's view of the tree is not compared with the analyzer's: `Walk`
descends by the FID's directory bit, the adapter classifies by the ICB file type,
and no promise in the sources relates the two.

Left out for good: `tag_checksum` and `ecma167_crc` (arithmetic on one buffer;
that an audited tag may fail either is data of `BootstrapAudit`'s medium),
`decode_timestamp` and the characters of `decode_osta_cs0` (formatting), the
wording and severity of findings (no state, no order), the `forensic-vfs` crate
itself, and the test and fuzz drivers. `read_at` asks for the first byte and
`read_link` for the whole target: offset and cap only cut what is already there.
