----------------------------- MODULE BlockLinks -----------------------------
(***************************************************************************)
(* The block table of the model: which files a block occurs in, and which  *)
(* of these occurrences are believed to be on the local disk               *)
(* (model/block_info.cpp, model/misc/file_block.cpp, model/file_info.cpp). *)
(*                                                                         *)
(* Every block_info_t keeps its occurrences (file_block_t: file, index,    *)
(* LOCAL_MASK) in the order they were linked.  A file links all its blocks *)
(* at once, and unlinks them all before it links again, so the orders of   *)
(* all blocks come from one: "links" is the sequence of the files in the   *)
(* order they were last linked, each with its blocks and the set of        *)
(* indices whose occurrence is marked.  The bit a file keeps of its own    *)
(* per index (LOCAL_MASK in content.file.blocks) is not part of the table. *)
(***************************************************************************)
EXTENDS Integers, Sequences, FiniteSets

MinOf(S) == CHOOSE x \in S : \A y \in S : x <= y

Entry(f, blocks, local) == [f |-> f, blocks |-> blocks, local |-> local]

\* The marked occurrences of a block in one file.
Marked(e, b) == {i \in e.local : e.blocks[i] = b}

\* block_info_t::local_file: some occurrence of the block is marked local.
IsLocal(links, b) == \E k \in DOMAIN links : Marked(links[k], b) # {}

\* The first marked occurrence, the one io_clone_block copies from.
LocalFile(links, b) ==
    LET e == links[MinOf({k \in DOMAIN links : Marked(links[k], b) # {}})]
    IN  [f |-> e.f, i |-> MinOf(Marked(e, b))]

\* The first occurrence of a block in a file, the one the handlers find, and
\* whether an occurrence is marked.
FirstIndex(blocks, b) == MinOf({i \in DOMAIN blocks : blocks[i] = b})
IsMarked(links, f, i) == \E k \in DOMAIN links : links[k].f = f /\ i \in links[k].local

\* file_info_t::remove_blocks: all the occurrences in the file are unlinked.
Position(links, f) == {k \in DOMAIN links : links[k].f = f}
RemoveNothing(links, f) == links                \* mutant
RemoveBlocks(links, f) ==
    IF Position(links, f) = {} THEN links
    ELSE LET k == MinOf(Position(links, f))
         IN  SubSeq(links, 1, k - 1) \o SubSeq(links, k + 1, Len(links))

\* file_info_t::assign_block for each block of a file that is new or is
\* updated in place.  The constructor of file_block_t marks an occurrence
\* local when the block is local anywhere, before the old ones are removed.
AssignBlocks(links, f, blocks) ==
    Append(RemoveBlocks(links, f),
           Entry(f, blocks, {i \in DOMAIN blocks : IsLocal(links, blocks[i])}))

\* The same for the local copy of a file: advance_t marks every block local.
AssignLocalBlocks(links, f, blocks) ==
    Append(RemoveBlocks(links, f), Entry(f, blocks, DOMAIN blocks))

\* block_info_t::mark_local_available: the first occurrence in the file.
MarkLocalAvailable(links, b, f) ==
    [k \in DOMAIN links |->
        IF links[k].f = f
        THEN Entry(f, links[k].blocks, links[k].local \cup {FirstIndex(links[k].blocks, b)})
        ELSE links[k]]

\* file_info_t::update: the hashes that are local for the file before the
\* update make the same hashes available after it, at any index.
CarriedOver(links, f, new) ==
    {i \in DOMAIN new : \E k \in Position(links, f) : Marked(links[k], new[i]) # {}}
=============================================================================
