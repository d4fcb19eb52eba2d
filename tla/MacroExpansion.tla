--------------------------- MODULE MacroExpansion ---------------------------
(***************************************************************************)
(* Macro expansion (pp/macro.c and the stream side in pp/directive.c):     *)
(* hide sets on tokens, collection of arguments, substitution with # and   *)
(* ##, rescanning.  The code expands in two ways: pp_next expands the      *)
(* token stream in place, with a pending slot and a stack of expansions    *)
(* above the file, and pp_expand_list expands a list in isolation (an      *)
(* argument, an #if line, a computed #include).                            *)
(*                                                                         *)
(* A token is a spelling and a hide set.  White space, locations and the   *)
(* dynamic builtins are left out; what ## makes of two spellings is a      *)
(* parameter.                                                              *)
(***************************************************************************)
EXTENDS Naturals, Sequences, SequencesExt

CONSTANTS
  Tables,     \* the macro tables explored
  Inputs,     \* the token sequences explored
  Glue(_, _)  \* the spelling two spellings paste to, or BadPaste

BadPaste == "?"
PasteOp == "##op"      \* a ## of a macro body; one of an argument is a token
Placemarker == ""

VARIABLES
  table,     \* pp->macros: a function from names to definitions
  input,     \* the token sequence (never changes)
  ahead,     \* what raw_next has still to return: expansions, then the file
  pending,   \* the token unget_raw put back: none or one
  out,       \* the tokens pp_next returned
  errs       \* the errors reported for invocations in the stream

vars == <<table, input, ahead, pending, out, errs>>

Tok(s) == [s |-> s, hs |-> {}]
Toks(ss) == [i \in DOMAIN ss |-> Tok(ss[i])]

(* A definition: fn, the number of its parameters, variadic or not, and    *)
(* its body, whose elements are <<"tok", spelling>>, <<"param", i>>,       *)
(* <<"str", i>> (# and a parameter) and <<"paste">>; parameter n + 1 is    *)
(* the variadic tail.                                                      *)
(* Op(v) with v evaluated first: a recursion stays as long as its steps.   *)
Strict(v, Op(_)) == CHOOSE r \in {Op(x) : x \in {v}} : TRUE

IsMacro(t) == t.s \in DOMAIN table
Expandable(t) == IsMacro(t) /\ t.s \notin t.hs

-----------------------------------------------------------------------------
(* Arguments.  The parentheses open at each position from lp on.           *)
Nesting(ts, lp) ==
  LET d[i \in lp .. Len(ts)] ==
        (IF i = lp THEN 0 ELSE d[i - 1]) +
        (CASE ts[i].s = "(" -> 1 [] ts[i].s = ")" -> -1 [] OTHER -> 0)
  IN d

(* The parenthesis that closes the one at lp; 0 when there is none.        *)
Close(ts, lp) ==
  LET ends == {i \in lp .. Len(ts) : Nesting(ts, lp)[i] = 0}
  IN IF ends = {} THEN 0 ELSE CHOOSE i \in ends : \A j \in ends : i <= j

(* The text between the commas that separate arguments; the variadic tail  *)
(* keeps its own.                                                          *)
Pieces(m, ts, lp, rp) ==
  LET at == {i \in lp .. rp : ts[i].s = "," /\ Nesting(ts, lp)[i] = 1}
      commas == SetToSortSeq(at, LAMBDA i, j : i < j)
      cuts == IF m.va /\ Len(commas) > m.n THEN SubSeq(commas, 1, m.n) ELSE commas
      ends == <<lp>> \o cuts \o <<rp>>
  IN [k \in 1 .. Len(ends) - 1 |-> SubSeq(ts, ends[k] + 1, ends[k + 1] - 1)]

(* The arguments as collected: a missing variadic tail is an empty one.    *)
Args(m, pieces) == IF m.va /\ Len(pieces) = m.n THEN Append(pieces, <<>>) ELSE pieces

(* nargs: a macro without parameters has no room to remember that its one  *)
(* argument was not empty, so the count falls to 0 for Z(x) as for Z().    *)
NArgs(m, pieces) ==
  IF m.n = 0 /\ ~m.va /\ Len(pieces) = 1 THEN 0 ELSE Len(Args(m, pieces))

(* pp_macro_check_args, and whether it reports what it refuses.            *)
CheckArgs(m, nargs) ==
  IF m.va THEN nargs >= m.n ELSE IF m.n = 0 THEN nargs <= 1 ELSE nargs = m.n
RefusalReported(m) == m.va \/ m.n # 0

-----------------------------------------------------------------------------
(* paste: an empty operand gives the other, else the glued spelling, which *)
(* is painted only where both operands were.                               *)
Paste(l, r) ==
  CASE l.s = Placemarker -> r
    [] r.s = Placemarker -> l
    [] OTHER -> [s |-> Glue(l.s, r.s), hs |-> l.hs \cap r.hs]

(* Pass B: the ## operators from left to right; a paste that gives no      *)
(* token drops the operator and keeps both operands.                       *)
RECURSIVE Pasted(_, _)
Pasted(done, rest) ==
  IF rest = <<>> THEN done
  ELSE IF rest[1].s = PasteOp /\ done # <<>> /\ Len(rest) > 1
  THEN LET l == Last(done)
           p == Paste(l, rest[2])
       IN IF p.s = BadPaste THEN Pasted(done, Tail(rest))
          ELSE Pasted(Append(Front(done), p), SubSeq(rest, 3, Len(rest)))
  ELSE Pasted(Append(done, rest[1]), Tail(rest))

(* Pass C: placemarkers go, and every token is hidden from hs too.         *)
Paint(t, hs) == [t EXCEPT !.hs = @ \cup hs]
Painted(ts, hs) ==
  LET kept == SelectSeq(ts, LAMBDA t : t.s # Placemarker)
  IN [i \in DOMAIN kept |-> Paint(kept[i], hs)]

(* The spelling of the argument as written, in quotes. *)
Stringized(ts) ==
  Tok(FoldLeft(LAMBDA text, t : text \o t.s, "\"", ts) \o "\"")

RECURSIVE Expanded(_), ExpandedFrom(_), PassA(_, _, _, _)

(* Pass A: the body from element i on, behind acc.  The operand of a ## is *)
(* the argument as written, or a placemarker; elsewhere it is the argument *)
(* fully expanded by itself.                                               *)
PassA(m, args, i, acc) ==
  IF i > Len(m.body) THEN acc
  ELSE LET b == m.body[i]
           beforePaste == i < Len(m.body) /\ m.body[i + 1][1] = "paste"
           afterPaste == acc # <<>> /\ Last(acc).s = PasteOp
           raw == IF args[b[2]] = <<>> THEN <<Tok(Placemarker)>> ELSE args[b[2]]
           commaTail == /\ i < Len(m.body) /\ acc # <<>> /\ Last(acc).s = ","
                        /\ m.va /\ m.body[i + 1] = <<"param", m.n + 1>>
           tail == args[m.n + 1]
           From(j, more) == Strict(acc \o more, LAMBDA v : PassA(m, args, j, v))
       IN CASE b[1] = "str" -> From(i + 1, <<Stringized(args[b[2]])>>)
            [] b[1] = "paste" /\ commaTail ->
                 IF tail = <<>> THEN PassA(m, args, i + 2, Front(acc))
                                ELSE From(i + 2, tail)
            [] b[1] = "paste" /\ ~commaTail -> From(i + 1, <<Tok(PasteOp)>>)
            [] b[1] = "param" ->
                 From(i + 1, IF beforePaste \/ afterPaste THEN raw ELSE Expanded(args[b[2]]))
            [] b[1] = "tok" -> From(i + 1, <<Tok(b[2])>>)

Subst(m, args, hs) == Painted(Pasted(<<>>, PassA(m, args, 1, <<>>)), hs)

(* What an object-like macro t, and an invocation t ( ... ), become.       *)
ReplaceObject(t) == Subst(table[t.s], <<>>, t.hs \cup {t.s})
InvocationHides(t, rparen) == (t.hs \cap rparen.hs) \cup {t.s}
ReplaceCall(t, args, rparen) == Subst(table[t.s], args, InvocationHides(t, rparen))

(* pp_expand_list.  A refused invocation disappears, an unterminated one   *)
(* leaves its name as it is.                                               *)
ExpandedFrom(w) ==
  IF w = <<>> THEN <<>>
  ELSE LET t == Head(w)
           m == table[t.s]
           called == Len(w) > 1 /\ w[2].s = "("
           Call(rp) ==
             LET pieces == Pieces(m, w, 2, rp)
                 rest == SubSeq(w, rp + 1, Len(w))
             IN IF rp = 0 THEN <<t>> \o Expanded(Tail(w))
                ELSE IF CheckArgs(m, NArgs(m, pieces))
                THEN Expanded(ReplaceCall(t, Args(m, pieces), w[rp]) \o rest)
                ELSE Expanded(rest)
       IN CASE ~Expandable(t) -> <<t>> \o Expanded(Tail(w))
            [] Expandable(t) /\ ~m.fn -> Expanded(ReplaceObject(t) \o Tail(w))
            [] Expandable(t) /\ m.fn /\ ~called -> <<t>> \o Expanded(Tail(w))
            [] Expandable(t) /\ m.fn /\ called -> Strict(Close(w, 2), Call)
Expanded(w) == Strict(w, ExpandedFrom)

-----------------------------------------------------------------------------
(* The stream. *)
Init ==
  /\ table \in Tables
  /\ input \in Inputs
  /\ ahead = Toks(input)
  /\ pending = <<>>
  /\ out = <<>>
  /\ errs = 0

(* raw_next: the pending slot, then the expansions, then the file.         *)
Stream == pending \o ahead
HasToken == Stream # <<>>
First == Head(Stream)
After(n) == SubSeq(Stream, n + 1, Len(Stream))

(* pp_next returns t, with the tokens behind it still to come.             *)
Returns(t, rest) ==
  /\ out' = Append(out, t)
  /\ pending' = <<>>
  /\ ahead' = rest

(* push_buf: the replacement is read before what follows.                  *)
MutRescan(ts, rest) ==
  /\ out' = out \o ts
  /\ pending' = <<>>
  /\ ahead' = rest
Rescan(ts, rest) ==
  /\ out' = out
  /\ pending' = <<>>
  /\ ahead' = ts \o rest

EmitToken ==
  /\ HasToken
  /\ ~Expandable(First)
  /\ Returns(First, After(1))
  /\ UNCHANGED <<table, input, errs>>

ExpandObject ==
  /\ HasToken
  /\ Expandable(First)
  /\ ~table[First.s].fn
  /\ Rescan(ReplaceObject(First), After(1))
  /\ UNCHANGED <<table, input, errs>>

Called == Len(Stream) > 1 /\ Stream[2].s = "("

(* A function-like name without ( : the token read to find out is put back *)
(* in the pending slot.                                                    *)
NotCalled ==
  /\ HasToken
  /\ Expandable(First)
  /\ table[First.s].fn
  /\ ~Called
  /\ out' = Append(out, First)
  /\ pending' = SubSeq(Stream, 2, IF Len(Stream) > 1 THEN 2 ELSE 1)
  /\ ahead' = After(2)
  /\ UNCHANGED <<table, input, errs>>

Calling == HasToken /\ Expandable(First) /\ table[First.s].fn /\ Called

(* The argument list reaches the end of the file: all of it is swallowed.  *)
Unterminated ==
  /\ Calling
  /\ Close(Stream, 2) = 0
  /\ errs' = errs + 1
  /\ Rescan(<<>>, <<>>)
  /\ UNCHANGED <<table, input>>

ExpandCall ==
  /\ Calling
  /\ Close(Stream, 2) # 0
  /\ LET m == table[First.s]
         rp == Close(Stream, 2)
         pieces == Pieces(m, Stream, 2, rp)
     IN IF CheckArgs(m, NArgs(m, pieces))
        THEN /\ Rescan(ReplaceCall(First, Args(m, pieces), Stream[rp]), After(rp))
             /\ UNCHANGED errs
        ELSE /\ Rescan(<<>>, After(rp))
             /\ errs' = IF RefusalReported(m) THEN errs + 1 ELSE errs
  /\ UNCHANGED <<table, input>>

Next == EmitToken \/ ExpandObject \/ NotCalled \/ Unterminated \/ ExpandCall
Spec == Init /\ [][Next]_vars /\ WF_vars(Next)

Done == ~HasToken

-----------------------------------------------------------------------------
(* Tokens keep their shape: nothing internal to substitution (a            *)
(* placemarker, a ## operator) escapes, and at most one token is pending.  *)
TypeOK ==
  /\ Len(pending) <= 1
  /\ \A t \in ToSet(Stream) \cup ToSet(out) :
       /\ t.s \notin {Placemarker, PasteOp, BadPaste}
       /\ t.hs \subseteq DOMAIN table
  /\ errs \in Nat

(* Expansion ends: hide sets stop every recursion of the macros.           *)
Terminates == <>Done

(* Expansion is complete: a token that names an object-like macro is       *)
(* returned only when it is painted with that name, that is when it stands *)
(* in the macro's own replacement (6.10.3.4p2); and no placemarker or ##   *)
(* operator escapes.                                                       *)
NothingLeftToExpand ==
  TypeOK /\ \A i \in DOMAIN out :
    IsMacro(out[i]) /\ ~table[out[i].s].fn => out[i].s \in out[i].hs

(* The two expanders agree: on an input without errors pp_next returns     *)
(* exactly the tokens, hide sets included, that pp_expand_list makes of    *)
(* the same tokens as one list.                                            *)
StreamAgreesWithList == Done /\ errs = 0 => out = Expanded(Toks(input))

(* An invocation whose number of arguments is not the macro's is reported. *)
(* The count is what the text says: Z() has none, Z(x) has one.            *)
Count(m, pieces) == IF pieces = <<(<<>>)>> /\ m.n = 0 THEN 0 ELSE Len(pieces)
WrongCount(m, pieces) ==
  IF m.va THEN Count(m, pieces) < m.n ELSE Count(m, pieces) # m.n
WrongCountIsReported ==
  [][(Calling /\ Close(Stream, 2) # 0) =>
       LET m == table[First.s]
       IN WrongCount(m, Pieces(m, Stream, 2, Close(Stream, 2))) => errs' > errs]_vars
=============================================================================
