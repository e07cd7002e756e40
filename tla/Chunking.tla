------------------------------- MODULE Chunking -------------------------------
(***************************************************************************)
(* What a file is cut into, and what an edit of it asks neighbors for          *)
(* (chunking/mod.rs; lib.rs, reindex_file and write_change_neighbors_marker).    *)
(*                                                                         *)
(* A line is its content, a number; "text" is chunked by chunk_fallback, whose    *)
(* boundaries are the lines of a set (the hash of a line is on the residue or     *)
(* not), "code" by a grammar, whose declarations nest.  A file is indexed, one    *)
(* line of it is edited, and it is reindexed; embedding succeeds.               *)
(***************************************************************************)
EXTENDS Naturals, Sequences, FiniteSets, Functions

CONSTANTS
  ChunkSize,  \* DEFAULT_CHUNK_LINES
  Overlap,    \* indexing.chunk_overlap_lines, less than ChunkSize
  TextLines,  \* bound: the lines of a text
  MaxCuts,    \* bound: those of them that are boundaries
  CodeLines,  \* bound: the lines of a source file
  MaxItems    \* bound: its declarations

ASSUME ChunkingAssumption ==
  /\ ChunkSize \in Nat \ {0}
  /\ Overlap \in 0..(ChunkSize - 1)
  /\ {TextLines, CodeLines} \subseteq Nat \ {0}
  /\ {MaxCuts, MaxItems} \subseteq Nat

VARIABLES
  lines,     \* the file
  shape,     \* what its chunker goes by
  stored,    \* the contents of its chunk rows
  edited,    \* the line that was edited, in the numbering of the file
  below,     \* the first line under the edit
  asked,     \* the chunks the change-neighbors scan queries with
  stage

chunkVars == <<lines, shape, stored, edited, below, asked, stage>>

MaxOf2(a, b) == IF a > b THEN a ELSE b
MinLines == MaxOf2(ChunkSize \div 4, 1)
MaxLines == MaxOf2(2 * ChunkSize, MinLines + 1)

(* A line that was not there: one that is no boundary, and one that is.              *)
Plain == MaxOf2(TextLines, CodeLines) + 1
Boundary == Plain + 1

(* Mutant: a stride of ChunkSize. *)
LineIsBoundaryByStride(form, text, i) == i % ChunkSize = 0

(* line_is_boundary: what the line says, not where it stands.                       *)
LineIsBoundary(form, text, i) == text[i] \in form.cuts \cup {Boundary}

(* A segment that starts with line s ends with line i.                             *)
SegmentEnds(form, text, s, i) ==
  LET length == (i + 1) - s IN
    length >= MaxLines \/ (length >= MinLines /\ LineIsBoundary(form, text, i))

(* Where the segment of each line starts.                                        *)
SegmentStart(form, text) ==
  LET start[i \in 1..Len(text)] ==
        IF i = 1 THEN 1
        ELSE LET s == start[i - 1] IN IF SegmentEnds(form, text, s, i - 1) THEN i ELSE s
  IN  start

Chunk(text, first, last, n) ==
  [first |-> first, last |-> last, n |-> n, content |-> SubSeq(text, first, last)]

(* chunk_fallback.                                                            *)
TextChunks(form, text) ==
  LET at == SegmentStart(form, text)
      start == [i \in 1..Len(text) |-> at[i]] IN
    {Chunk(text, MaxOf2(start[i] - Overlap, 1), i, 0) :
       i \in {j \in 1..Len(text) : j = Len(text) \/ start[j + 1] = j + 1}}

(* extend_start_for_rust_docs.                                                 *)
DocStart(form, first) ==
  CHOOSE s \in 1..first : s..(first - 1) \subseteq form.docs /\ s - 1 \notin form.docs

(* chunk_with_grammar: a chunk of every declaration, whatever holds it.              *)
CodeChunks(form, text) == {Chunk(text, DocStart(form, d.first), d.last, d.n) : d \in form.items}

ChunksOf(form, text) == IF form.by = "text" THEN TextChunks(form, text) ELSE CodeChunks(form, text)
Contents(chunks) == {c.content : c \in chunks}

ChunkingTypeOK ==
  /\ stage \in {"none", "indexed", "edited", "asked"}
  /\ lines \in Seq(1..Boundary) /\ Len(lines) <= Plain
  /\ \A c \in asked : c.first <= c.last /\ c.last <= Len(lines)

ChunkingInit ==
  /\ lines = << >>
  /\ shape = [by |-> "text", cuts |-> {}, items |-> {}, docs |-> {}]
  /\ stored = {}
  /\ edited = 0
  /\ below = 0
  /\ asked = {}
  /\ stage = "none"

-----------------------------------------------------------------------------
Nested(items) ==
  \A a, b \in items : \/ a.last < b.first \/ b.last < a.first
                      \/ a.first <= b.first /\ b.last <= a.last
                      \/ b.first <= a.first /\ a.last <= b.last

Item == {d \in [first : 1..CodeLines, last : 1..CodeLines, n : {1, 2}] : d.first <= d.last}

(* reindex_file of a new file.                                                 *)
IndexText ==
  /\ stage = "none"
  /\ \E cuts \in SUBSET (1..TextLines) :
       /\ Cardinality(cuts) <= MaxCuts
       /\ shape' = [by |-> "text", cuts |-> cuts, items |-> {}, docs |-> {}]
  /\ lines' = [i \in 1..TextLines |-> i]
  /\ stage' = "indexed"
  /\ stored' = Contents(ChunksOf(shape', lines'))
  /\ UNCHANGED <<edited, below, asked>>

IndexCode ==
  /\ stage = "none"
  /\ \E pick \in [1..MaxItems -> Item] : LET items == Range(pick) IN
       /\ Nested(items)
       /\ \E docs \in SUBSET ((1..CodeLines) \ UNION {{d.first, d.last} : d \in items}) :
            shape' = [by |-> "code", cuts |-> {}, items |-> items, docs |-> docs]
  /\ lines' = [i \in 1..CodeLines |-> i]
  /\ stage' = "indexed"
  /\ stored' = Contents(ChunksOf(shape', lines'))
  /\ UNCHANGED <<edited, below, asked>>

(* An edit in an editor: a line changes, one is put in before it, or it goes.         *)
ChangeLine(i) ==
  /\ stage = "indexed"
  /\ i \in 1..Len(lines)
  /\ \E new \in IF shape.by = "text" THEN {Plain, Boundary} ELSE {Plain} :
       lines' = [lines EXCEPT ![i] = new]
  /\ edited' = i /\ below' = i + 1
  /\ stage' = "edited"
  /\ UNCHANGED <<shape, stored, asked>>

InsertLine(i) ==
  /\ stage = "indexed" /\ shape.by = "text"
  /\ i \in 1..(Len(lines) + 1)
  /\ \E new \in {Plain, Boundary} :
       lines' = SubSeq(lines, 1, i - 1) \o <<new>> \o SubSeq(lines, i, Len(lines))
  /\ edited' = i /\ below' = i + 1
  /\ stage' = "edited"
  /\ UNCHANGED <<shape, stored, asked>>

RemoveLine(i) ==
  /\ stage = "indexed" /\ shape.by = "text"
  /\ i \in 1..Len(lines)
  /\ lines' = SubSeq(lines, 1, i - 1) \o SubSeq(lines, i + 1, Len(lines))
  /\ edited' = i /\ below' = i
  /\ stage' = "edited"
  /\ UNCHANGED <<shape, stored, asked>>

StrictlyContains(outer, inner) ==
  /\ outer.first <= inner.first /\ inner.last <= outer.last
  /\ outer.first < inner.first \/ inner.last < outer.last

(* Those of the chunks whose content is new, without what holds another of them.       *)
Queries(chunks) ==
  LET changed == {c \in chunks : c.content \notin stored} IN
    {c \in changed : ~\E inner \in changed : StrictlyContains(c, inner)}

ReindexEdited ==
  /\ stage = "edited"
  /\ stage' = "asked"
  /\ asked' = Queries(ChunksOf(shape, lines))
  /\ stored' = Contents(ChunksOf(shape, lines))
  /\ UNCHANGED <<lines, shape, edited, below>>

ChunkingNext ==
  \/ IndexText \/ IndexCode
  \/ \E i \in 1..(TextLines + 1) : ChangeLine(i) \/ InsertLine(i) \/ RemoveLine(i)
  \/ ReindexEdited

ChunkingSpec == ChunkingInit /\ [][ChunkingNext]_chunkVars

-----------------------------------------------------------------------------
(* Two boundary lines under the edit with none between them, at least MinLines and at   *)
(* most MaxLines - MinLines + 1 apart.                                         *)
Settled(i) ==
  /\ LineIsBoundary(shape, lines, i)
  /\ \E j \in below..(i - 1) :
    /\ LineIsBoundary(shape, lines, j)
    /\ \A k \in (j + 1)..(i - 1) : ~LineIsBoundary(shape, lines, k)
    /\ i - j \in MinLines..(MaxLines - MinLines + 1)

(* An edit of a text does not reach below two boundary lines that stand well apart        *)
(* (chunking/mod.rs:192-197), although boundaries are skipped within MinLines of a          *)
(* segment's start and forced at MaxLines: from there on the cuts fall where they fell.      *)
(* An edit in code asks for the innermost declarations that hold the line, and of two         *)
(* over the same lines for both (lib.rs:942-947).                                 *)
EditsStayLocal ==
  stage = "asked" =>
    IF shape.by = "text"
      THEN \A c \in asked : c.first < below \/ ~\E i \in below..(c.last - 1) : Settled(i)
      ELSE LET holding == {c \in CodeChunks(shape, lines) : edited \in c.first..c.last} IN
             asked = {c \in holding : ~\E d \in holding : StrictlyContains(c, d)}
=============================================================================
