------------------------------ MODULE SourceMap ------------------------------
(***************************************************************************)
(* Reading a source file (pp/source.c) and the ways back from a line and   *)
(* column of the normalised text to the bytes of the file (diag.c).        *)
(*                                                                         *)
(* Phase 1 folds CRLF and CR into a newline, drops NUL bytes, replaces     *)
(* trigraphs and supplies a missing final newline.  Diagnostics count      *)
(* lines and columns in that text; an edit must land on the bytes the user *)
(* wrote.  One action is one turn of normalize's loop.                     *)
(*                                                                         *)
(* Bytes: "x" an ordinary character, "r" and "n" carriage return and       *)
(* newline, "0" NUL, "?" and "=" what a trigraph is made of.               *)
(***************************************************************************)
EXTENDS Integers, Sequences, FiniteSets

CONSTANTS MaxLen     \* longest file considered

Bytes == {"x", "?", "=", "r", "n", "0"}

VARIABLES
    trigraphs,   \* pp->trigraphs
    original,    \* the bytes read
    i,           \* how many of them normalize has consumed
    contents,    \* the normalised text
    nulAt,       \* 1 + offset of the first dropped NUL, 0 while there is none
    editable,    \* safely_editable
    from,        \* for each byte of contents, the offset it came from
    ready        \* normalize has returned

vars == <<trigraphs, original, i, contents, nulAt, editable, from, ready>>

Init ==
    /\ trigraphs \in BOOLEAN
    /\ original \in UNION {[1..n -> Bytes] : n \in 0..MaxLen}
    /\ i = 0 /\ contents = <<>> /\ nulAt = 0 /\ editable = TRUE /\ from = <<>>
    /\ ready = FALSE
-----------------------------------------------------------------------------
Reads(b) == ~ready /\ i < Len(original) /\ original[i + 1] = b

Emits(b, n) ==
    /\ contents' = Append(contents, b)
    /\ from' = Append(from, i)
    /\ i' = i + n

AtTrigraph ==
    /\ trigraphs
    /\ i + 2 < Len(original)
    /\ original[i + 2] = "?" /\ original[i + 3] = "="

DropNul ==
    /\ Reads("0")
    /\ nulAt' = IF nulAt = 0 THEN Len(contents) + 1 ELSE nulAt
    /\ editable' = FALSE
    /\ i' = i + 1
    /\ UNCHANGED <<trigraphs, original, contents, from, ready>>

FoldReturn ==
    /\ Reads("r")
    /\ Emits("n", IF i + 1 < Len(original) /\ original[i + 2] = "n" THEN 2 ELSE 1)
    /\ UNCHANGED <<trigraphs, original, nulAt, editable, ready>>

Trigraph ==
    /\ Reads("?") /\ AtTrigraph
    /\ Emits("#", 3)
    /\ editable' = FALSE
    /\ UNCHANGED <<trigraphs, original, nulAt, ready>>

CopyByte ==
    /\ \E b \in Bytes \ {"0", "r"} :
         /\ Reads(b)
         /\ ~(b = "?" /\ AtTrigraph)
         /\ Emits(b, 1)
    /\ UNCHANGED <<trigraphs, original, nulAt, editable, ready>>

Finish ==
    /\ ~ready /\ i = Len(original)
    /\ IF contents = <<>> \/ contents[Len(contents)] # "n"
         THEN Emits("n", 0) ELSE UNCHANGED <<contents, from, i>>
    /\ ready' = TRUE
    /\ UNCHANGED <<trigraphs, original, nulAt, editable>>

Next == DropNul \/ FoldReturn \/ Trigraph \/ CopyByte \/ Finish
Spec == Init /\ [][Next]_vars
-----------------------------------------------------------------------------
(* Positions are offsets from 0, lines and columns count from 1, as in a   *)
(* Span.  NoPos stands for a function that returns false.                  *)
NoPos == 0 - 1

(* Where a line starts, given the bytes that end one; the text after the   *)
(* last newline is a line too.                                             *)
LineStart(ends, line) ==
    LET starts == {p \in {0} \cup ends : Cardinality({k \in ends : k <= p}) = line - 1}
    IN  IF line >= 1 /\ starts # {} THEN CHOOSE p \in starts : TRUE ELSE NoPos

(* The bytes of the line that starts at p, its terminator excluded. *)
LineLength(text, terminators, p) ==
    LET stops == {k \in p + 1 .. Len(text) : text[k] \in terminators}
    IN  (IF stops = {} THEN Len(text) ELSE (CHOOSE k \in stops : \A l \in stops : k <= l) - 1) - p

(* The offset of a column of the line that starts at p. *)
ColumnOffset(text, terminators, p, col) ==
    IF p = NoPos \/ col < 1 \/ col > LineLength(text, terminators, p) + 1
      THEN NoPos ELSE p + col - 1

LineEnds == {k \in 1..Len(contents) : contents[k] = "n"}
SpanStart(sp) == ColumnOffset(contents, {"n"}, LineStart(LineEnds, sp.line), sp.col)

(* span_end: the line and column just past the span. *)
SpanEnd(sp) ==
    LET p == SpanStart(sp)
        q == p + sp.len
        crossed == {k \in p + 1 .. q : contents[k] = "n"}
    IN  IF p = NoPos \/ q > Len(contents) THEN <<NoPos, NoPos>>
        ELSE <<sp.line + Cardinality(crossed),
               IF crossed = {} THEN sp.col + sp.len
               ELSE q - (CHOOSE k \in crossed : \A l \in crossed : l <= k) + 1>>

(* original_line_col_offset: CRLF ends one line, and so does a lone CR. *)
MutOriginalEndsLine(k) == original[k] \in {"r", "n"}

OriginalEndsLine(k) ==
    \/ original[k] = "n"
    \/ original[k] = "r" /\ ~(k < Len(original) /\ original[k + 1] = "n")
OriginalOffset(line, col) ==
    LET ends == {k \in 1..Len(original) : OriginalEndsLine(k)}
    IN  ColumnOffset(original, {"n", "r"}, LineStart(ends, line), col)

(* span_offsets: the bytes of the file an edit replaces. *)
SpanOffsets(sp) ==
    LET end == SpanEnd(sp)
        a == OriginalOffset(sp.line, sp.col)
        b == OriginalOffset(end[1], end[2])
    IN  IF ~editable \/ end[1] = NoPos \/ a = NoPos \/ b = NoPos THEN <<NoPos, NoPos>>
        ELSE <<a, b>>

(* diag_point_after: the insertion point behind a token, kept on its line. *)
PointAfter(sp) ==
    LET p == LineStart(LineEnds, sp.line)
        past == sp.col + sp.len
        cols == LineLength(contents, {"n"}, p) + 1
    IN  [line |-> sp.line, len |-> 1,
         col |-> IF p # NoPos /\ past > cols THEN cols ELSE past]

(* check_span: the test every diagnostic's location must pass. *)
Renderable(sp) ==
    LET p == LineStart(LineEnds, sp.line)
    IN  sp.line >= 1 /\ sp.col >= 1 /\ p # NoPos /\ sp.col <= LineLength(contents, {"n"}, p) + 1

(* line_offsets: a newline at the very end starts no line here. *)
LineOffsets ==
    LET starts == {0} \cup {k \in 1 .. Len(contents) - 1 : contents[k] = "n"}
    IN  [n \in 1..Cardinality(starts) |->
           CHOOSE p \in starts : Cardinality({s \in starts : s < p}) = n - 1]

(* The search of pp_source_finalize for the line of the dropped NUL. *)
FindLine(off) ==
    LET n == Len(LineOffsets)
        search[lo \in 0..n, hi \in 0..n] ==
          IF hi <= lo + 1 THEN lo
          ELSE LET mid == lo + (hi - lo) \div 2
               IN  IF LineOffsets[mid + 1] <= off THEN search[mid, hi] ELSE search[lo, mid]
    IN  search[0, n]

(* pp_source_finalize: where "null character(s) ignored" is reported. *)
NulSpan ==
    LET off == nulAt - 1
        lo == FindLine(off)
    IN  [line |-> lo + 1, col |-> off - LineOffsets[lo + 1] + 1, len |-> 1]
-----------------------------------------------------------------------------
Spans == [line : 1 .. MaxLen + 2, col : 1 .. MaxLen + 2, len : 0 .. MaxLen + 1]

Synthesised == Len(from) >= 1 /\ contents # <<>> /\ from[Len(from)] = Len(original)

(* The line and column of an offset of the normalised text, by counting. *)
LineOf(p) == 1 + Cardinality({k \in 1..p : contents[k] = "n"})
ColumnOf(p) == 1 + Cardinality({k \in 1..p : \A l \in k..p : contents[l] # "n"})

(* What normalize hands on: text without carriage returns or NULs that     *)
(* ends in a newline.                                                      *)
TypeOK ==
    /\ contents \in Seq({"x", "?", "=", "#", "n"})
    /\ Len(from) = Len(contents)
    /\ nulAt \in 0 .. Len(contents) + 1
    /\ ready => contents # <<>> /\ contents[Len(contents)] = "n"

(* An edit of diag_apply_fixits lands exactly on the bytes its span came   *)
(* from, whatever line endings the file has; it is dropped only if the     *)
(* file is not editable or the span reaches past the last byte the user    *)
(* wrote.                                                                  *)
MapsBack ==
    ready /\ editable =>
      LET ours == Len(contents) - (IF Synthesised THEN 1 ELSE 0)
          origin(p) == IF p = Len(contents) THEN Len(original) ELSE from[p + 1]
      IN  \A sp \in Spans :
            LET here == {p \in 0..ours : LineOf(p) = sp.line /\ ColumnOf(p) = sp.col}
                p == CHOOSE p \in here : TRUE
            IN  SpanOffsets(sp) =
                  IF here = {} \/ p + sp.len > ours THEN <<NoPos, NoPos>>
                  ELSE <<origin(p), origin(p + sp.len)>>

(* The insertion point diag_point_after computes for a token with a valid  *)
(* start always passes check_span, also when the token's spelling ran over *)
(* a line splice and its length reaches past the line.                     *)
PointAfterRenderable ==
    ready => \A sp \in Spans : Renderable(sp) => Renderable(PointAfter(sp))

(* The search for a dropped NUL finds the line and column of the text that *)
(* follows it.                                                             *)
NulLocated ==
    ready /\ nulAt \in 1..Len(contents) =>
      NulSpan.line = LineOf(nulAt - 1) /\ NulSpan.col = ColumnOf(nulAt - 1)
=============================================================================
