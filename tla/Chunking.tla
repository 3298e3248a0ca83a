---------------------------- MODULE Chunking ----------------------------
(***************************************************************************)
(* How a Markdown document is cut into chunks (knowledge_chunk.py), one    *)
(* step per line that normalize_markdown reads, per block parse_blocks     *)
(* finds, per piece _expand_prose makes of it and per piece chunk_document *)
(* takes.  A line is its kind, which is all that the code looks at:        *)
(*   "h1" "h2" headings; "row" a line with a bar, "sep" a table separator; *)
(*   "item" a list item, "indent" an indented line; "quote"; "text" words, *)
(*   "long" a single word above the target, and "blank";                   *)
(*   "fence" a code fence of three marks, "ifence" one that is indented,   *)
(*   "info" one that names a language, "wide" one of four marks and        *)
(*   "tilde" one of another mark.                                          *)
(* A "long" line counts LongWord tokens, any other that is not blank one.  *)
(***************************************************************************)
EXTENDS Naturals, Sequences, FiniteSets, SequencesExt

CONSTANTS
    Target, MaxTokens, Overlap, \* sizes of chunks in tokens
    LongWord                    \* the size of a long word

ASSUME SizesAssumption ==
    /\ Target \in Nat \ {0} /\ Overlap \in Nat \ {0}
    /\ MaxTokens \in Nat /\ Target <= MaxTokens
    /\ LongWord \in Nat /\ Target < LongWord

VARIABLES
    stage,   \* reading, parsing, chunking, chunked
    lines,   \* the lines of the normalized text
    at,      \* the line parse_blocks has come to
    blocks,  \* what it has found
    word,    \* the line whose words the next piece begins with
    pieces,  \* the blocks, long prose in several pieces
    taken,   \* the pieces chunk_document has taken
    build    \* its state: chunks, heading_stack, pending, what is carried

chunking == <<stage, lines, at, blocks, word, pieces, taken, build>>

Fenced == {"fence", "ifence", "info", "wide", "tilde"}
Kinds == Fenced \cup {"blank", "h1", "h2", "row", "sep", "item", "indent", "quote", "text", "long"}
Atomic == {"code", "table", "list"}

Blank(k) == k = "blank"
Fence(k) == k \in Fenced
Heading(k) == k \in {"h1", "h2"}
Level(k) == IF k = "h1" THEN 1 ELSE 2
HasBar(k) == k \in {"row", "sep"}
ListLine(k) == k \in {"item", "indent", "ifence"}
----------------------------------------------------------------------------
(* normalize_markdown: runs of blank lines become one, none at the ends.   *)

ReadLine(k) ==
    /\ stage = "reading"
    /\ lines' = IF Blank(k) /\ (lines = <<>> \/ Blank(Last(lines))) THEN lines ELSE Append(lines, k)
    /\ UNCHANGED <<stage, at, blocks, word, pieces, taken, build>>

EndText ==
    /\ stage = "reading"
    /\ stage' = "parsing"
    /\ lines' = IF lines # <<>> /\ Blank(Last(lines)) THEN Front(lines) ELSE lines
    /\ UNCHANGED <<at, blocks, word, pieces, taken, build>>
----------------------------------------------------------------------------
(* parse_blocks and _expand_prose.                                         *)

\* The last line before the first one after line i that stops the block.
UpTo(i, stops) == Min({j \in stops : j > i} \cup {Len(lines) + 1}) - 1

TableAt(i) == i < Len(lines) /\ HasBar(lines[i]) /\ lines[i + 1] = "sep"

\* _is_closing_fence: the marks that opened the code, as many or more, alone.
Closes(k, opening) ==
    /\ Fence(k) /\ k # "info"
    /\ k = "tilde" <=> opening = "tilde"
    /\ opening = "wide" => k = "wide"

Closing(i) == {j \in 1..Len(lines) : j > i /\ Closes(lines[j], lines[i])}
LeavesTable == {j \in 1..Len(lines) : ~HasBar(lines[j])}
LeavesQuote == {j \in 1..Len(lines) : lines[j] # "quote"}

\* _consume_list: a blank line stays in the list if the next line that is not
\* blank does.
LeavesList ==
    {j \in 1..Len(lines) : LET filled == {k \in j..Len(lines) : ~Blank(lines[k])}
                           IN  filled = {} \/ ~ListLine(lines[Min(filled)])}

LeavesParagraph ==
    {j \in 1..Len(lines) : \/ Blank(lines[j]) \/ Heading(lines[j]) \/ Fence(lines[j])
                           \/ lines[j] = "item" \/ TableAt(j)}

BlockKind(i) ==
    CASE Fence(lines[i])     -> "code"
      [] Heading(lines[i])   -> "heading"
      [] TableAt(i)          -> "table"
      [] lines[i] = "item"   -> "list"
      [] lines[i] = "quote"  -> "blockquote"
      [] OTHER               -> "paragraph"

\* A fence that is never closed holds the rest of the document.
BlockEnd(i) ==
    CASE BlockKind(i) = "code"       -> Min(Closing(i) \cup {Len(lines)})
      [] BlockKind(i) = "heading"    -> i
      [] BlockKind(i) = "table"      -> UpTo(i, LeavesTable)
      [] BlockKind(i) = "list"       -> UpTo(i, LeavesList)
      [] BlockKind(i) = "blockquote" -> UpTo(i, LeavesQuote)
      [] BlockKind(i) = "paragraph"  -> UpTo(i, LeavesParagraph)

Block(i) == [kind |-> BlockKind(i), first |-> i, last |-> BlockEnd(i)]

Tokens(i, j) ==
    Cardinality({k \in i..j : ~Blank(lines[k])})
      + (LongWord - 1) * Cardinality({k \in i..j : lines[k] = "long"})

\* _split_prose fills a piece with words up to the target; a word above it is
\* never cut and has a piece to itself.
Filled(b, i) ==
    Min({j \in i..b.last : \/ j = b.last \/ j - i + 1 = Target
                           \/ lines[j] = "long" \/ lines[j + 1] = "long"})

PieceEnd(b, i) ==
    IF b.kind \in Atomic \/ Tokens(b.first, b.last) <= Target THEN b.last ELSE Filled(b, i)

Piece(b, i) ==
    [kind |-> b.kind, from |-> i, to |-> PieceEnd(b, i), tokens |-> Tokens(i, PieceEnd(b, i))]

SkipBlank ==
    /\ stage = "parsing" /\ word = at /\ at <= Len(lines) /\ Blank(lines[at])
    /\ at' = at + 1
    /\ word' = at'
    /\ UNCHANGED <<stage, lines, blocks, pieces, taken, build>>

FindBlock ==
    /\ stage = "parsing" /\ word = at /\ at <= Len(lines) /\ ~Blank(lines[at])
    /\ blocks' = Append(blocks, Block(at))
    /\ at' = BlockEnd(at) + 1
    /\ UNCHANGED <<stage, lines, word, pieces, taken, build>>

\* One piece of the block found last.
Expand ==
    /\ stage = "parsing" /\ word < at
    /\ pieces' = Append(pieces, Piece(Last(blocks), word))
    /\ word' = PieceEnd(Last(blocks), word) + 1
    /\ UNCHANGED <<stage, lines, at, blocks, taken, build>>

Parsed ==
    /\ stage = "parsing" /\ word = at /\ at > Len(lines)
    /\ stage' = "chunking"
    /\ UNCHANGED <<lines, at, blocks, word, pieces, taken, build>>
----------------------------------------------------------------------------
(* chunk_document.  A chunk is made of parts: pieces, by their numbers, and*)
(* seeds, which repeat a heading or the tail of the chunk before.          *)

Own(n) == [piece |-> n, seed |-> FALSE]
Repeated(n) == [piece |-> n, seed |-> TRUE]
Tail0 == Repeated(0)

Size(part) == IF part.piece = 0 THEN Overlap ELSE pieces[part.piece].tokens
Weight(parts) == Cardinality(UNION {{n} \X (1..Size(parts[n])) : n \in DOMAIN parts})

LevelOf(n) == Level(lines[pieces[n].from])

Nothing == [chunks |-> <<>>, path |-> <<>>, pending |-> <<>>, carry |-> <<>>]

Emit(b) == IF b.pending = <<>> THEN b
           ELSE [b EXCEPT !.chunks = Append(@, [path |-> b.path, parts |-> b.pending]),
                          !.pending = <<>>]

\* emit and set_carry: the headings and the tail of the text are repeated.
EmitAndCarry(b) ==
    LET heads == [i \in DOMAIN b.path |-> Repeated(b.path[i])]
    IN  [Emit(b) EXCEPT !.carry = heads \o (IF Weight(b.pending) > Overlap THEN <<Tail0>> ELSE <<>>)]

\* ensure_seed
Seed(b) == IF b.pending # <<>> THEN b ELSE [b EXCEPT !.pending = b.carry, !.carry = <<>>]

\* The headings that stay when one of this level is met: those of its level
\* and below are popped.
Above(path, level) ==
    SubSeq(path, 1, Max({m \in 0..Len(path) : m = 0 \/ LevelOf(path[m]) < level}))

\* Faulty variant: a heading does not end the chunk before it
AddHeadingLate(b, n) ==
    [chunks  |-> b.chunks,
     path    |-> Append(Above(b.path, LevelOf(n)), n),
     pending |-> Append(b.pending, Own(n)),
     carry   |-> <<>>]

AddHeading(b, n) ==
    [chunks  |-> Emit(b).chunks,
     path    |-> Append(Above(b.path, LevelOf(n)), n),
     pending |-> <<Own(n)>>,
     carry   |-> <<>>]

AddBlock(b, n) ==
    LET seeded == Seed(b)
        full   == seeded.pending # <<>> /\ Weight(seeded.pending) + pieces[n].tokens > MaxTokens
        room   == IF full THEN Seed(EmitAndCarry(seeded)) ELSE seeded
        added  == [room EXCEPT !.pending = Append(@, Own(n))]
    IN  IF pieces[n].kind \notin Atomic /\ Weight(added.pending) >= Target
        THEN EmitAndCarry(added) ELSE added

TakePiece ==
    /\ stage = "chunking" /\ taken < Len(pieces)
    /\ taken' = taken + 1
    /\ build' = IF pieces[taken + 1].kind = "heading" THEN AddHeading(build, taken + 1)
                ELSE AddBlock(build, taken + 1)
    /\ UNCHANGED <<stage, lines, at, blocks, word, pieces>>

EndChunks ==
    /\ stage = "chunking" /\ taken = Len(pieces)
    /\ stage' = "chunked"
    /\ build' = Emit(build)
    /\ UNCHANGED <<lines, at, blocks, word, pieces, taken>>

ChunkInit ==
    /\ stage = "reading" /\ lines = <<>>
    /\ at = 1 /\ blocks = <<>> /\ word = 1 /\ pieces = <<>>
    /\ taken = 0 /\ build = Nothing

ChunkNext ==
    \/ \E k \in Kinds : ReadLine(k)
    \/ EndText \/ SkipBlank \/ FindBlock \/ Expand \/ Parsed \/ TakePiece \/ EndChunks

ChunkSpec == ChunkInit /\ [][ChunkNext]_chunking
----------------------------------------------------------------------------
(* What the result must be, by definitions that know no state.             *)

Span(b) == b.first..b.last
Held(p) == p.from..p.to

\* The headings a piece stands under: those not closed by a later one of
\* their level or above.
Headings == {n \in DOMAIN pieces : pieces[n].kind = "heading"}
Under(n) ==
    {h \in Headings : h <= n /\ \A k \in Headings : h < k /\ k <= n => LevelOf(k) > LevelOf(h)}

\* The pieces a chunk is made of, without what is repeated.
Body(chunk) == {p.piece : p \in {q \in ToSet(chunk.parts) : ~q.seed}}
----------------------------------------------------------------------------
(* Properties of every document.                                           *)

\* Blocks follow each other and every line that is not blank is in one.  Code
\* goes from a fence to the first that closes it, or to the end of the
\* document; no fence is read as anything else, but for one that is indented
\* under a list item, for a list takes indented lines as they come.
BlocksPartition ==
    /\ \A n \in DOMAIN blocks : /\ blocks[n].first <= blocks[n].last
                                /\ n > 1 => blocks[n - 1].last < blocks[n].first
    /\ \A i \in 1..Len(lines) : ~Blank(lines[i]) => \E b \in ToSet(blocks) : i \in Span(b)
    /\ \A b \in ToSet(blocks) :
          /\ b.kind = "code" =>
               /\ \A j \in b.first + 1..b.last - 1 : ~Closes(lines[j], lines[b.first])
               /\ b.last = Len(lines) \/ b.last \in Closing(b.first)
          /\ \A j \in Span(b) : Fence(lines[j]) =>
               b.kind = "code" \/ (b.kind = "list" /\ lines[j] = "ifence")

\* The pieces hold the lines of the blocks, all of them and in order; code,
\* tables and lists stay whole, and nothing else is above the target but for a
\* single word that is.
PiecesFaithful ==
    /\ \A b \in ToSet(blocks) : \A i \in Span(b) :
          \E p \in ToSet(pieces) : p.kind = b.kind /\ i \in Held(p)
    /\ \A n, m \in DOMAIN pieces : n < m => pieces[n].to < pieces[m].from
    /\ \A p \in ToSet(pieces) :
          /\ \E b \in ToSet(blocks) : /\ p.kind = b.kind /\ Held(p) \subseteq Span(b)
                                      /\ p.kind \in Atomic => Held(p) = Span(b)
          /\ \/ p.kind \in Atomic \/ p.tokens <= Target
             \/ p.from = p.to /\ lines[p.from] = "long"

\* Each piece of the document is in exactly one chunk, in order, next to
\* repeated ones only; a chunk is filed under the headings its pieces stand
\* under and shows the nearest of them; it exceeds the cap only when a single
\* piece, code, a table, a list or a long word, does so together with what is
\* repeated before it.
ChunksFaithful ==
    LET made == build.chunks IN
    /\ UNION {Body(c) : c \in ToSet(made)} = DOMAIN pieces
    /\ \A m, n \in DOMAIN made : m < n =>
          \A p \in Body(made[m]), q \in Body(made[n]) : p < q
    /\ \A c \in ToSet(made) :
          /\ \A i, j \in DOMAIN c.parts :
                i < j /\ ~c.parts[i].seed /\ ~c.parts[j].seed => c.parts[i].piece < c.parts[j].piece
          /\ \A n \in Body(c) : ToSet(c.path) = Under(n)
          /\ \A i, j \in DOMAIN c.path : i < j => c.path[i] < c.path[j]
          /\ c.path # <<>> => \E p \in ToSet(c.parts) : p.piece = Last(c.path)
          /\ Weight(c.parts) > MaxTokens => \A p, q \in Body(c) : p = q

\* parse_blocks partitions every document into its blocks, and chunk_document
\* keeps every block, its order, its headings and, but for what cannot be cut,
\* the cap.
ChunksRight ==
    /\ stage = "chunking" => BlocksPartition /\ PiecesFaithful
    /\ stage = "chunked" => ChunksFaithful
============================================================================
