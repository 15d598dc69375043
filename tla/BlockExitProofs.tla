--------------------------- MODULE BlockExitProofs ---------------------------
(***************************************************************************)
(* The flags of blockExit() are right for statements of any size: the      *)
(* proof goes along the construction of the statement, one lemma for each  *)
(* construct.  All that is needed of the parts is collected in Known; a    *)
(* construct is described to the provers way by way.                       *)
(***************************************************************************)
EXTENDS BlockExit, TLAPS

\* A statement without a label or a case can be entered at its top only.
Entered(s) == ~s.comeFrom => s.from["case"] = {} /\ s.from["label"] = {}

\* Jumps to the labelled loop are among the jumps of the statement.
LabelJumps == {"break label", "continue label"}
Jumps(s) == \A e \in Entries : \A w \in s.from[e] : w \in LabelJumps => w \in s.jumps

Known(s) ==
    /\ s \in Statements
    /\ Entered(s)
    /\ Jumps(s)
    /\ Honest(s)
    /\ ThrowsNothing(s)

\* The flag of a way, by cases.
LEMMA FlagFacts ==
    ASSUME NEW w \in Ways
    PROVE  /\ FlagOf(w) \in BE
           /\ w \in Gotos => FlagOf(w) = "goto"
           /\ w \notin Gotos /\ w # "throwable" => FlagOf(w) = w
           /\ w = "throwable" => FlagOf(w) = "throw"
           /\ w \in Gotos <=> FlagOf(w) = "goto"
BY DEF FlagOf, BE, Ways, Gotos, Thrown

\* A way that no loop takes up keeps its flag.
LEMMA OtherFlags ==
    ASSUME NEW w \in Ways
    PROVE  /\ FlagOf(w) = "fallthru" <=> w = "fallthru"
           /\ FlagOf(w) = "break" <=> w = "break"
           /\ FlagOf(w) = "continue" <=> w = "continue"
           /\ FlagOf(w) = "halt" <=> w = "halt"
           /\ FlagOf(w) = "throw" <=> w \in {"throw", "throwable"}
           /\ FlagOf(w) = "errthrow" <=> w = "errthrow"
BY DEF FlagOf, Ways, Gotos, Thrown

\* What Known says of one way out.
Fits(s, e, w) ==
    /\ w \in LabelJumps => w \in s.jumps
    /\ s.gaps = {} => FlagOf(w) \in s.exits /\ (w = "throw" => s.throws)
    /\ ~s.comeFrom => e = "top"

LEMMA Known1 ==
    ASSUME NEW s, Known(s), NEW e \in Entries, NEW w \in s.from[e]
    PROVE  w \in Ways /\ Fits(s, e, w)
BY DEF Known, Fits, Statements, Entered, Jumps, Honest, Covers, ThrowsNothing, Entries

LEMMA KnownAll ==
    ASSUME NEW s \in Statements,
           ASSUME NEW e \in Entries, NEW w \in s.from[e] PROVE Fits(s, e, w)
    PROVE  Known(s)
<1>1. Entered(s)
  <2>1. s.from["case"] \subseteq Ways /\ s.from["label"] \subseteq Ways
    BY DEF Statements, Entries
  <2> QED
    BY <2>1 DEF Fits, Entered, Entries
<1>2. Jumps(s)
  BY DEF Fits, Jumps
<1>3. Honest(s)
  BY DEF Fits, Honest, Covers
<1>4. ThrowsNothing(s)
  BY DEF Fits, ThrowsNothing
<1> QED
  BY <1>1, <1>2, <1>3, <1>4 DEF Known

-----------------------------------------------------------------------------
(* Simple statements                                                       *)

LEMMA SimpleKnown ==
    ASSUME NEW flags \in SUBSET BE, NEW ways \in SUBSET Ways, NEW jumps \in SUBSET Ways,
           \A w \in ways : FlagOf(w) \in flags,
           ways \cap LabelJumps \subseteq jumps
    PROVE  Known(Simple(flags, ways, jumps))
<1> DEFINE s == Simple(flags, ways, jumps)
<1>1. s \in Statements
  BY DEF Simple, Statements, Only, Entries
<1>2. /\ s.exits = flags /\ s.jumps = jumps /\ s.throws = ("throw" \in flags)
      /\ s.from["top"] = ways /\ s.from["case"] = {} /\ s.from["label"] = {}
  BY DEF Simple, Only, Entries
<1>3. Entered(s)
  BY <1>2 DEF Entered
<1>4. Jumps(s)
  BY <1>2 DEF Jumps, Entries, LabelJumps
<1>5. Covers(s)
  BY <1>2 DEF Covers, Entries
<1>6. ThrowsNothing(s)
  <2>1. "throw" \in ways => "throw" \in flags
    BY OtherFlags DEF Ways, Thrown
  <2> QED
    BY <1>2, <2>1 DEF ThrowsNothing, Entries
<1> QED
  BY <1>1, <1>3, <1>4, <1>5, <1>6 DEF Known, Honest

LEMMA SimplesKnown == \A n \in DOMAIN Simples : Known(Simples[n])
<1>1. Known(Simple({"fallthru"}, {"fallthru"}, {}))
  BY SimpleKnown, FlagFacts DEF BE, Ways, Gotos, LabelJumps
<1>2. Known(Empty)
  <2> DEFINE s == Simple({"fallthru"}, {"fallthru"}, {})
  <2>1. Known(s) /\ Empty = [s EXCEPT !.hasCode = FALSE]
    BY <1>1 DEF Empty
  <2> HIDE DEF s
  <2>2. /\ Empty \in Statements
        /\ Empty.exits = s.exits /\ Empty.throws = s.throws /\ Empty.comeFrom = s.comeFrom
        /\ Empty.jumps = s.jumps /\ Empty.gaps = s.gaps /\ Empty.from = s.from
    BY <2>1 DEF Known, Statements
  <2> QED
    BY <2>1, <2>2 DEF Known, Entered, Jumps, Honest, Covers, ThrowsNothing
<1>3. Known(Simple({"fallthru", "throw"}, {"fallthru", "throw"}, {}))
  BY SimpleKnown, FlagFacts DEF BE, Ways, Gotos, Thrown, LabelJumps
<1>4. Known(Simple({"halt", "throw"}, {"halt", "throw"}, {}))
  BY SimpleKnown, FlagFacts DEF BE, Ways, Gotos, Thrown, LabelJumps
<1>5. Known(Simple({"halt"}, {"halt"}, {}))
  BY SimpleKnown, FlagFacts DEF BE, Ways, Gotos, Thrown, LabelJumps
<1>6. Known(Simple({"return"}, {"return"}, {"return"}))
  BY SimpleKnown, FlagFacts DEF BE, Ways, Gotos, Thrown, LabelJumps
<1>7. Known(Simple({"return", "throw"}, {"return", "throw"}, {"return"}))
  BY SimpleKnown, FlagFacts DEF BE, Ways, Gotos, Thrown, LabelJumps
<1>8. Known(Simple({"throw"}, {"throw"}, {})) /\ Known(Simple({"throw"}, {"throwable"}, {}))
  BY SimpleKnown, FlagFacts DEF BE, Ways, Gotos, Thrown, LabelJumps
<1>9. Known(Simple({"errthrow"}, {"errthrow"}, {}))
  BY SimpleKnown, FlagFacts DEF BE, Ways, Gotos, Thrown, LabelJumps
<1>10. ASSUME NEW w \in Gotos \cup {"break", "continue"}
       PROVE  Known(Jump(w))
  BY SimpleKnown, FlagFacts DEF Jump, BE, Ways, LabelJumps
<1> HIDE DEF Known
<1>11. DOMAIN Simples =
         {"empty", "nothrow", "call", "noreturn", "halt", "return", "returnCall",
          "throwException", "throwThrowable", "throwError", "goto", "gotoCase",
          "break", "continue", "breakLabel", "continueLabel"}
  BY DEF Simples
<1>12. /\ Known(Simples.empty) /\ Known(Simples.nothrow) /\ Known(Simples.call)
       /\ Known(Simples.noreturn) /\ Known(Simples.halt) /\ Known(Simples.return)
  BY <1>1, <1>2, <1>3, <1>4, <1>5, <1>6 DEF Simples
<1>13. /\ Known(Simples.returnCall) /\ Known(Simples.throwException)
       /\ Known(Simples.throwThrowable) /\ Known(Simples.throwError)
  BY <1>7, <1>8, <1>9 DEF Simples
<1>14. /\ Known(Simples.goto) /\ Known(Simples.gotoCase) /\ Known(Simples.break)
       /\ Known(Simples.continue) /\ Known(Simples.breakLabel) /\ Known(Simples.continueLabel)
  BY <1>10 DEF Simples, Gotos
<1> QED
  BY <1>11, <1>12, <1>13, <1>14

-----------------------------------------------------------------------------
(* One statement after the other                                           *)

LEMMA JoinedTyped ==
    ASSUME NEW a \in Statements, NEW b \in Statements
    PROVE  Joined(a, b) \in Statements
<1>1. ASSUME NEW t \in BOOLEAN, NEW c \in BOOLEAN, NEW d \in BOOLEAN, NEW l \in BOOLEAN,
             t = (a.throws \/ b.throws), c = (a.comeFrom \/ b.comeFrom),
             d = (a.default \/ b.default), l = (a.label \/ b.label)
      PROVE  Joined(a, b) \in Statements
  <2> DEFINE r == [a EXCEPT !.throws = t, !.comeFrom = c, !.hasCode = TRUE, !.last = "other",
                            !.isCase = FALSE, !.default = d, !.label = l,
                            !.jumps = a.jumps \cup b.jumps,
                            !.messages = a.messages \cup b.messages,
                            !.facts = a.facts \cup b.facts, !.gaps = a.gaps \cup b.gaps]
  <2>1. Joined(a, b) = r
    BY <1>1 DEF Joined
  <2>2. r \in Statements
    BY DEF Statements
  <2> QED
    BY <2>1, <2>2
<1> QED
  BY <1>1

LEMMA JoinedFacts ==
    ASSUME NEW a \in Statements, NEW b \in Statements
    PROVE  /\ Joined(a, b).exits = a.exits /\ Joined(a, b).from = a.from
           /\ Joined(a, b).throws <=> a.throws \/ b.throws
           /\ Joined(a, b).comeFrom <=> a.comeFrom \/ b.comeFrom
           /\ Joined(a, b).jumps = a.jumps \cup b.jumps
           /\ Joined(a, b).messages = a.messages \cup b.messages
           /\ Joined(a, b).facts = a.facts \cup b.facts
           /\ Joined(a, b).gaps = a.gaps \cup b.gaps
BY DEF Joined, Statements

LEMMA FromFacts ==
    ASSUME NEW s \in Statements, NEW e \in Entries
    PROVE  s.from[e] \subseteq Ways
BY DEF Statements

LEMMA CompoundFields ==
    ASSUME NEW a \in Statements, NEW b \in Statements
    PROVE  /\ Compound(a, b) \in Statements
           /\ Compound(a, b).exits = CompoundExits(a, b)
           /\ Compound(a, b).throws <=> a.throws \/ b.throws
           /\ Compound(a, b).comeFrom <=> a.comeFrom \/ b.comeFrom
           /\ Compound(a, b).jumps = a.jumps \cup b.jumps
           /\ Compound(a, b).gaps = a.gaps \cup b.gaps
           /\ \A e \in Entries : Compound(a, b).from[e] =
                   Then(a.from[e], b.from.top) \cup If(e # "top", b.from[e])
<1> DEFINE j == Joined(a, b)
           f == [e \in Entries |-> Then(a.from[e], b.from.top) \cup If(e # "top", b.from[e])]
           x == CompoundExits(a, b)
           m == CompoundMessages(a, b)
           k == CompoundFacts(a, b)
           r == Compound(a, b)
<1>1. j \in Statements
  BY JoinedTyped
<1>2. f \in [Entries -> SUBSET Ways]
  BY FromFacts DEF Then, If, Entries
<1>3. x \in SUBSET BE /\ m \in SUBSET Messages /\ k \in SUBSET Messages
  BY DEF CompoundExits, CompoundMessages, CompoundFacts, Messages, If, Statements
<1>4. b.last \in {"other", "case", "empty case"}
  BY DEF Statements
<1>5. ASSUME NEW h \in BOOLEAN, h = (a.hasCode \/ b.hasCode)
      PROVE  r = [j EXCEPT !.exits = x, !.hasCode = h, !.last = b.last, !.isCase = FALSE,
                           !.messages = @ \cup m, !.facts = @ \cup k, !.from = f]
  BY <1>5 DEF Compound
<1> HIDE DEF j, f, x, m, k, r
<1>6. ASSUME NEW h \in BOOLEAN,
             r = [j EXCEPT !.exits = x, !.hasCode = h, !.last = b.last, !.isCase = FALSE,
                           !.messages = @ \cup m, !.facts = @ \cup k, !.from = f]
      PROVE  /\ r \in Statements /\ r.exits = x /\ r.throws = j.throws
             /\ r.comeFrom = j.comeFrom /\ r.jumps = j.jumps /\ r.gaps = j.gaps /\ r.from = f
  BY <1>1, <1>2, <1>3, <1>4, <1>6 DEF Statements
<1>7. /\ r \in Statements /\ r.exits = x /\ r.throws = j.throws
      /\ r.comeFrom = j.comeFrom /\ r.jumps = j.jumps /\ r.gaps = j.gaps /\ r.from = f
  BY <1>5, <1>6
<1> QED
  BY <1>7, JoinedFacts DEF j, f, x, r

LEMMA CompoundKnown ==
    ASSUME NEW a, NEW b, Known(a), Known(b)
    PROVE  Known(Compound(a, b))
<1> DEFINE r == Compound(a, b)
<1>1. a \in Statements /\ b \in Statements
  BY DEF Known
<1>2. /\ r \in Statements /\ r.exits = CompoundExits(a, b)
      /\ r.jumps = a.jumps \cup b.jumps /\ r.gaps = a.gaps \cup b.gaps
      /\ r.throws <=> a.throws \/ b.throws
      /\ r.comeFrom <=> a.comeFrom \/ b.comeFrom
      /\ \A e \in Entries : r.from[e] =
             Then(a.from[e], b.from.top) \cup If(e # "top", b.from[e])
  BY <1>1, CompoundFields
<1> HIDE DEF r
<1>3. ASSUME NEW e \in Entries, NEW w \in r.from[e]
      PROVE  Fits(r, e, w)
  <2>0. w \in Then(a.from[e], b.from["top"]) \cup If(e # "top", b.from[e])
    BY <1>2
  <2>1. CASE w \in a.from[e] /\ w # "fallthru"
    <3>1. Fits(a, e, w) /\ FlagOf(w) # "fallthru"
      BY <2>1, Known1, OtherFlags
    <3> QED
      BY <3>1, <1>2 DEF Fits, CompoundExits, Skips
  <2>2. CASE "fallthru" \in a.from[e] /\ w \in b.from["top"]
    <3>1. Fits(a, e, "fallthru") /\ Fits(b, "top", w)
      BY <2>2, Known1 DEF Entries
    <3>2. FlagOf("fallthru") = "fallthru"
      BY DEF FlagOf, Gotos
    <3> QED
      BY <3>1, <3>2, <1>2 DEF Fits, CompoundExits, Skips
  <2>3. CASE e # "top" /\ w \in b.from[e]
    <3>1. Fits(b, e, w)
      BY <2>3, Known1
    <3> QED
      BY <2>3, <3>1, <1>2 DEF Fits, CompoundExits, Skips
  <2>4. CASE w = "fallthru" /\ w \in a.from[e]
    BY <2>0, <2>2, <2>3, <2>4 DEF Then, If
  <2> QED
    BY <2>0, <2>1, <2>2, <2>3, <2>4 DEF Then, If
<1> QED
  BY <1>2, <1>3, KnownAll DEF r

\* A statement of which only the shape has changed.
LEMMA SameKnown ==
    ASSUME NEW s, Known(s), NEW r \in Statements,
           r.exits = s.exits, r.throws = s.throws, r.comeFrom = s.comeFrom,
           r.jumps = s.jumps, r.gaps = s.gaps, r.from = s.from
    PROVE  Known(r)
BY DEF Known, Entered, Jumps, Honest, Covers, ThrowsNothing

LEMMA BlockKnown ==
    ASSUME NEW s, Known(s)
    PROVE  Known(Block(s))
<1> DEFINE r == Block(s)
<1>1. s \in Statements
  BY DEF Known
<1>2. /\ r \in Statements /\ r.exits = s.exits /\ r.throws = s.throws
      /\ r.comeFrom = s.comeFrom /\ r.jumps = s.jumps /\ r.gaps = s.gaps /\ r.from = s.from
  BY <1>1 DEF Block, Statements
<1> HIDE DEF r
<1>3. Known(r)
  BY <1>2, SameKnown
<1> QED
  BY <1>3 DEF r

-----------------------------------------------------------------------------
(* Labels and cases                                                        *)

\* A statement with another entry, that leads to its top.
LEMMA EntryKnown ==
    ASSUME NEW s, Known(s), NEW r \in Statements, NEW i \in Entries,
           r.exits = s.exits, r.throws = s.throws, r.comeFrom,
           r.jumps = s.jumps, r.gaps = s.gaps,
           \A e \in Entries : r.from[e] \subseteq s.from[e] \cup If(e = i, s.from["top"])
    PROVE  Known(r)
<1>1. ASSUME NEW e \in Entries, NEW w \in r.from[e]
      PROVE  Fits(r, e, w)
  <2>1. \E d \in Entries : w \in s.from[d]
    BY DEF If, Entries
  <2>2. PICK d \in Entries : w \in s.from[d]
    BY <2>1
  <2>3. Fits(s, d, w)
    BY <2>2, Known1
  <2> QED
    BY <2>3 DEF Fits
<1> QED
  BY <1>1, KnownAll

LEMMA LabelKnown ==
    ASSUME NEW s, Known(s)
    PROVE  Known(Label(s))
<1> DEFINE r == Label(s)
<1>1. s \in Statements
  BY DEF Known
<1>2. s.from["top"] \in SUBSET Ways
  BY <1>1, FromFacts DEF Entries
<1>3. /\ r \in Statements /\ r.exits = s.exits /\ r.throws = s.throws
      /\ r.comeFrom = TRUE /\ r.jumps = s.jumps /\ r.gaps = s.gaps
      /\ r.from = [s.from EXCEPT !["label"] = s.from["top"]]
  BY <1>1, <1>2 DEF Label, Statements
<1>4. \A e \in Entries : r.from[e] \subseteq s.from[e] \cup If(e = "label", s.from["top"])
  BY <1>1, <1>3 DEF Statements, If, Entries
<1> HIDE DEF r
<1>5. Known(r)
  BY <1>3, <1>4, EntryKnown DEF Entries
<1> QED
  BY <1>5 DEF r

LEMMA CaseKnown ==
    ASSUME NEW s, Known(s), NEW isDefault \in BOOLEAN
    PROVE  Known(Case(s, isDefault))
<1> DEFINE r == Case(s, isDefault)
           l == IF s.hasCode THEN "case" ELSE "empty case"
           f == [s.from EXCEPT !["case"] = @ \cup s.from["top"]]
<1>1. s \in Statements
  BY DEF Known
<1>2. f \in [Entries -> SUBSET Ways]
  BY <1>1, FromFacts DEF Statements, Entries
<1>3. \A e \in Entries : f[e] \subseteq s.from[e] \cup If(e = "case", s.from["top"])
  BY <1>1 DEF Statements, If
<1>4. l \in {"other", "case", "empty case"}
  OBVIOUS
<1>5. ASSUME NEW d \in BOOLEAN, d = (s.default \/ isDefault)
      PROVE  r = [s EXCEPT !.comeFrom = TRUE, !.last = l, !.isCase = TRUE, !.default = d,
                           !.from = f]
  BY <1>1, <1>5 DEF Case, Statements
<1> HIDE DEF r, l, f
<1>6. ASSUME NEW d \in BOOLEAN,
             r = [s EXCEPT !.comeFrom = TRUE, !.last = l, !.isCase = TRUE, !.default = d,
                           !.from = f]
      PROVE  /\ r \in Statements /\ r.exits = s.exits /\ r.throws = s.throws
             /\ r.comeFrom = TRUE /\ r.jumps = s.jumps /\ r.gaps = s.gaps /\ r.from = f
  BY <1>1, <1>2, <1>4, <1>6 DEF Statements
<1>7. /\ r \in Statements /\ r.exits = s.exits /\ r.throws = s.throws
      /\ r.comeFrom = TRUE /\ r.jumps = s.jumps /\ r.gaps = s.gaps /\ r.from = f
  BY <1>5, <1>6
<1>8. Known(r)
  BY <1>3, <1>7, EntryKnown DEF Entries
<1> QED
  BY <1>8 DEF r

\* WithDefault takes the body or builds it from simple statements.
LEMMA WithDefaultKnown ==
    ASSUME NEW s, Known(s)
    PROVE  Known(WithDefault(s))
<1>1. Known(Simples.halt) /\ Known(Simples.break)
  BY SimplesKnown DEF Simples
<1>2. Known(SwitchError)
  BY <1>1, CaseKnown DEF SwitchError
<1>3. Known(Compound(s, Simples.break))
  BY <1>1, CompoundKnown
<1> HIDE DEF Known, Simples, SwitchError, Compound
<1> QED
  BY <1>2, <1>3, CompoundKnown DEF WithDefault

LEMMA ThrowsFacts ==
    ASSUME NEW cond
    PROVE  /\ Throws(cond) \in SUBSET BE /\ Throws(cond) \in SUBSET Ways
           /\ \A w \in Throws(cond) : w = "throw" /\ FlagOf(w) = "throw" /\ cond = "throws"
           /\ cond = "throws" => "throw" \in Throws(cond)
BY DEF Throws, If, BE, Ways, Thrown, FlagOf, Gotos

LEMMA WithKnown ==
    ASSUME NEW s, Known(s), NEW cond \in Conditions
    PROVE  Known(With(s, cond))
<1> DEFINE r == With(s, cond)
           x == Throws(cond) \cup s.exits
           f == [s.from EXCEPT !["top"] = Throws(cond) \cup @]
<1>1. s \in Statements
  BY DEF Known
<1>2. f \in [Entries -> SUBSET Ways] /\ x \in SUBSET BE
  BY <1>1, FromFacts, ThrowsFacts DEF Statements, Entries
<1>3. \A e \in Entries : f[e] = If(e = "top", Throws(cond)) \cup s.from[e]
  BY <1>1 DEF Statements, If
<1>4. ASSUME NEW t \in BOOLEAN, t = (s.throws \/ cond = "throws")
      PROVE  r = [s EXCEPT !.exits = x, !.throws = t, !.hasCode = TRUE, !.last = "other",
                           !.isCase = FALSE, !.from = f]
  BY <1>1, <1>4 DEF With, Statements
<1> HIDE DEF r, f
<1>5. ASSUME NEW t \in BOOLEAN,
             r = [s EXCEPT !.exits = x, !.throws = t, !.hasCode = TRUE, !.last = "other",
                           !.isCase = FALSE, !.from = f]
      PROVE  /\ r \in Statements /\ r.exits = x /\ r.throws = t /\ r.comeFrom = s.comeFrom
             /\ r.jumps = s.jumps /\ r.gaps = s.gaps /\ r.from = f
  BY <1>1, <1>2, <1>5 DEF Statements
<1>6. /\ r \in Statements /\ r.exits = x /\ r.throws = (s.throws \/ cond = "throws")
      /\ r.comeFrom = s.comeFrom /\ r.jumps = s.jumps /\ r.gaps = s.gaps /\ r.from = f
  <2>1. ASSUME NEW t \in BOOLEAN, t = (s.throws \/ cond = "throws")
        PROVE  /\ r \in Statements /\ r.exits = x /\ r.throws = t
               /\ r.comeFrom = s.comeFrom /\ r.jumps = s.jumps /\ r.gaps = s.gaps
               /\ r.from = f
    BY <1>4, <1>5, <2>1
  <2> QED
    BY <2>1
<1>7. ASSUME NEW e \in Entries, NEW w \in r.from[e]
      PROVE  Fits(r, e, w)
  <2>1. CASE w \in s.from[e]
    <3>1. Fits(s, e, w)
      BY <2>1, Known1
    <3> QED
      BY <3>1, <1>6 DEF Fits
  <2>2. CASE e = "top" /\ w \in Throws(cond)
    <3>1. w = "throw" /\ FlagOf(w) = "throw" /\ cond = "throws" /\ w \in Throws(cond)
      BY <2>2, ThrowsFacts
    <3> QED
      BY <2>2, <3>1, <1>6 DEF Fits, LabelJumps
  <2> QED
    BY <1>3, <1>6, <2>1, <2>2 DEF If
<1>8. Known(r)
  BY <1>6, <1>7, KnownAll
<1> QED
  BY <1>8 DEF r

LEMMA SwitchKnown ==
    ASSUME NEW s, Known(s), NEW cond \in Conditions
    PROVE  Known(Switch(s, cond))
<1> DEFINE b == WithDefault(s)
           Out(ways) == (ways \ {"break", "goto case"}) \cup If("break" \in ways, {"fallthru"})
           f == [e \in Entries |->
                   CASE e = "top" -> Throws(cond) \cup Out(b.from["case"])
                     [] e = "case" -> {}
                     [] OTHER -> Out(b.from[e]
                                     \cup If("goto case" \in b.from[e], b.from["case"]))]
           x == SwitchExits(b.exits, cond)
           k == b.jumps \ {"break", "goto case"}
           r == Switch(s, cond)
<1>1. Known(b)
  BY WithDefaultKnown
<1>2. ASSUME NEW t \in BOOLEAN, t = (b.throws \/ cond = "throws")
      PROVE  r = [b EXCEPT !.exits = x, !.throws = t, !.hasCode = TRUE, !.last = "other",
                           !.isCase = FALSE, !.default = FALSE, !.jumps = k, !.from = f]
  <2>1. b \in Statements
    BY <1>1 DEF Known
  <2> QED
    BY <2>1, <1>2 DEF Switch, Statements
<1> HIDE DEF b, r
<1>3. b \in Statements
  BY <1>1 DEF Known
<1>4. b.from["top"] \in SUBSET Ways /\ b.from["case"] \in SUBSET Ways
      /\ b.from["label"] \in SUBSET Ways
  BY <1>3, FromFacts DEF Entries
<1>5. f \in [Entries -> SUBSET Ways] /\ x \in SUBSET BE /\ k \in SUBSET Ways
  <2>1. \A ways \in SUBSET Ways : Out(ways) \in SUBSET Ways
    BY DEF If, Ways
  <2>2. b.from["label"] \cup If("goto case" \in b.from["label"], b.from["case"]) \in SUBSET Ways
    BY <1>4 DEF If
  <2>3. Throws(cond) \cup Out(b.from["case"]) \in SUBSET Ways
    BY <2>1, <1>4, ThrowsFacts
  <2>4. ASSUME NEW e \in Entries PROVE f[e] \in SUBSET Ways
    BY <2>1, <2>2, <2>3 DEF Entries
  <2>5. f \in [Entries -> SUBSET Ways]
    BY <2>4
  <2>6. x \in SUBSET BE /\ k \in SUBSET Ways
    BY <1>3, ThrowsFacts DEF SwitchExits, If, Statements, BE
  <2> QED
    BY <2>5, <2>6
<1>6. ASSUME NEW e \in Entries, NEW w \in f[e]
      PROVE  \/ e = "top" /\ w \in Throws(cond)
             \/ \E d \in Entries : \E v \in b.from[d] :
                    /\ d = "case" => e = "top" \/ b.from[e] # {}
                    /\ d # "case" => d = e
                    /\ \/ v = w /\ w \notin {"break", "goto case"}
                       \/ v = "break" /\ w = "fallthru"
  BY DEF If, Entries
<1> HIDE DEF f
<1>7. ASSUME NEW t \in BOOLEAN,
             r = [b EXCEPT !.exits = x, !.throws = t, !.hasCode = TRUE, !.last = "other",
                           !.isCase = FALSE, !.default = FALSE, !.jumps = k, !.from = f]
      PROVE  /\ r \in Statements /\ r.exits = x /\ r.throws = t /\ r.comeFrom = b.comeFrom
             /\ r.jumps = k /\ r.gaps = b.gaps /\ r.from = f
  BY <1>3, <1>5, <1>7 DEF Statements
<1>8. /\ r \in Statements /\ r.exits = x /\ r.throws = (b.throws \/ cond = "throws")
      /\ r.comeFrom = b.comeFrom /\ r.jumps = k /\ r.gaps = b.gaps /\ r.from = f
  <2>1. ASSUME NEW t \in BOOLEAN, t = (b.throws \/ cond = "throws")
        PROVE  /\ r \in Statements /\ r.exits = x /\ r.throws = t
               /\ r.comeFrom = b.comeFrom /\ r.jumps = k /\ r.gaps = b.gaps /\ r.from = f
    BY <1>2, <1>7, <2>1
  <2> QED
    BY <2>1
<1>9. ASSUME NEW e \in Entries, NEW w \in r.from[e]
      PROVE  Fits(r, e, w)
  <2>1. CASE e = "top" /\ w \in Throws(cond)
    <3>1. w = "throw" /\ FlagOf(w) = "throw" /\ cond = "throws" /\ w \in Throws(cond)
      BY <2>1, ThrowsFacts
    <3> QED
      BY <2>1, <3>1, <1>8 DEF Fits, LabelJumps, SwitchExits
  <2>2. ASSUME NEW d \in Entries, NEW v \in b.from[d],
               d = "case" => e = "top" \/ b.from[e] # {},
               d # "case" => d = e,
               \/ v = w /\ w \notin {"break", "goto case"}
               \/ v = "break" /\ w = "fallthru"
        PROVE  Fits(r, e, w)
    <3>1. Fits(b, d, v) /\ v \in Ways
      BY <1>1, Known1
    <3>2. ~b.comeFrom => e = "top"
      <4>1. ~b.comeFrom => b.from["case"] = {} /\ b.from["label"] = {}
        BY <1>1 DEF Known, Entered
      <4> QED
        BY <4>1, <2>2 DEF Entries
    <3>3. CASE v = w /\ w \notin {"break", "goto case"}
      <4>1. FlagOf(w) # "break"
        BY <3>1, <3>3, OtherFlags
      <4> QED
        BY <3>1, <3>2, <3>3, <4>1, <1>8 DEF Fits, SwitchExits
    <3>4. CASE v = "break" /\ w = "fallthru"
      <4>1. FlagOf("break") = "break" /\ FlagOf("fallthru") = "fallthru"
        BY DEF FlagOf, Gotos
      <4> QED
        BY <3>1, <3>2, <3>4, <4>1, <1>8 DEF Fits, SwitchExits, LabelJumps, If
    <3> QED
      BY <2>2, <3>3, <3>4
  <2>3. CASE ~(e = "top" /\ w \in Throws(cond))
    <3>1. PICK d \in Entries : \E v \in b.from[d] :
             /\ d = "case" => e = "top" \/ b.from[e] # {}
             /\ d # "case" => d = e
             /\ \/ v = w /\ w \notin {"break", "goto case"}
                \/ v = "break" /\ w = "fallthru"
      BY <1>6, <1>8, <2>3
    <3> QED
      BY <3>1, <2>2
  <2> QED
    BY <2>1, <2>3
<1>10. Known(r)
  BY <1>8, <1>9, KnownAll
<1> QED
  BY <1>10 DEF r

-----------------------------------------------------------------------------
(* Conditions and loops                                                    *)

LEMMA IfElseKnown ==
    ASSUME NEW a, NEW b, Known(a), Known(b), NEW cond \in Conditions
    PROVE  Known(IfElse(cond, a, b))
<1> DEFINE j == Joined(a, b)
           x == Throws(cond) \cup Branches(cond, a.exits, b.exits)
           m == Branches(cond, a.messages, b.messages)
           g == If((~CanBe(cond, "true") /\ a.comeFrom)
                     \/ (~CanBe(cond, "false") /\ b.comeFrom),
                   {"label where a constant condition does not lead"})
           f == [e \in Entries |->
                   IF e = "top" THEN Throws(cond) \cup Branches(cond, a.from.top, b.from.top)
                   ELSE a.from[e] \cup b.from[e]]
           mayThrow == \/ cond = "throws"
                       \/ CanBe(cond, "true") /\ a.throws
                       \/ CanBe(cond, "false") /\ b.throws
           r == IfElse(cond, a, b)
<1>1. a \in Statements /\ b \in Statements
  BY DEF Known
<1>2. j \in Statements
  BY <1>1, JoinedTyped
<1>3. /\ x \in SUBSET BE /\ m \in SUBSET Messages /\ g \in SUBSET Gaps
      /\ f \in [Entries -> SUBSET Ways]
  <2>1. x \in SUBSET BE /\ m \in SUBSET Messages
    BY <1>1, ThrowsFacts DEF Branches, If, Statements
  <2>2. g \in SUBSET Gaps
    BY DEF If, Gaps
  <2>3. ASSUME NEW e \in Entries PROVE f[e] \in SUBSET Ways
    BY <1>1, FromFacts, ThrowsFacts DEF Branches, If, Entries
  <2> QED
    BY <2>1, <2>2, <2>3
<1>4. ASSUME NEW t \in BOOLEAN, t = mayThrow
      PROVE  r = [j EXCEPT !.exits = x, !.throws = t, !.messages = m, !.gaps = @ \cup g,
                           !.from = f]
  BY <1>4 DEF IfElse
<1>5. /\ j.jumps = a.jumps \cup b.jumps /\ j.gaps = a.gaps \cup b.gaps
      /\ j.comeFrom <=> a.comeFrom \/ b.comeFrom
  BY <1>1, JoinedFacts
<1>6. ASSUME NEW e \in Entries, NEW w \in f[e]
      PROVE  \/ e = "top" /\ w \in Throws(cond)
             \/ (e = "top" => CanBe(cond, "true")) /\ w \in a.from[e]
             \/ (e = "top" => CanBe(cond, "false")) /\ w \in b.from[e]
  BY DEF Branches, If
<1> HIDE DEF j, r, m, f, g, x, mayThrow
<1>7. ASSUME NEW t \in BOOLEAN,
             r = [j EXCEPT !.exits = x, !.throws = t, !.messages = m, !.gaps = @ \cup g,
                           !.from = f]
      PROVE  /\ r \in Statements /\ r.exits = x /\ r.throws = t /\ r.comeFrom = j.comeFrom
             /\ r.jumps = j.jumps /\ r.gaps = j.gaps \cup g /\ r.from = f
  BY <1>2, <1>3, <1>7 DEF Statements
<1>8. /\ r \in Statements /\ r.exits = x /\ r.throws = mayThrow /\ r.comeFrom = j.comeFrom
      /\ r.jumps = j.jumps /\ r.gaps = j.gaps \cup g /\ r.from = f
  BY <1>4, <1>7 DEF mayThrow
<1>9. ASSUME NEW e \in Entries, NEW w \in r.from[e]
      PROVE  Fits(r, e, w)
  <2>1. CASE e = "top" /\ w \in Throws(cond)
    <3>1. w = "throw" /\ FlagOf(w) = "throw" /\ cond = "throws" /\ w \in Throws(cond)
      BY <2>1, ThrowsFacts
    <3> QED
      BY <2>1, <3>1, <1>8 DEF Fits, LabelJumps, x, mayThrow
  <2>2. CASE (e = "top" => CanBe(cond, "true")) /\ w \in a.from[e]
    <3>1. Fits(a, e, w)
      BY <2>2, Known1
    <3>2. r.gaps = {} => g = {}
      BY <1>8
    <3>3. r.gaps = {} => CanBe(cond, "true")
      BY <3>1, <3>2, <2>2 DEF Fits, If, g
    <3> QED
      BY <3>1, <3>3, <1>5, <1>8 DEF Fits, Branches, If, x, mayThrow
  <2>3. CASE (e = "top" => CanBe(cond, "false")) /\ w \in b.from[e]
    <3>1. Fits(b, e, w)
      BY <2>3, Known1
    <3>2. r.gaps = {} => g = {}
      BY <1>8
    <3>3. r.gaps = {} => CanBe(cond, "false")
      BY <3>1, <3>2, <2>3 DEF Fits, If, g
    <3> QED
      BY <3>1, <3>3, <1>5, <1>8 DEF Fits, Branches, If, x, mayThrow
  <2> QED
    BY <1>6, <1>8, <2>1, <2>2, <2>3
<1>10. Known(r)
  BY <1>8, <1>9, KnownAll
<1> QED
  BY <1>10 DEF r

\* What goes on with the next round of a loop, and what leaves the loop.
GoesOnWith(v, labelled) == v \in {"fallthru", "continue"} \/ (labelled /\ v = "continue label")
LeavesWith(v, labelled) == v = "break" \/ (labelled /\ v = "break label")

LEMMA RoundsWays ==
    ASSUME NEW ways \in SUBSET Ways, NEW top \in SUBSET Ways, NEW cond, NEW step,
           NEW labelled \in BOOLEAN, NEW w \in Rounds(ways, top, cond, step, labelled)
    PROVE  /\ ways # {}
           /\ \E v \in ways \cup top :
                 \/ /\ w = v /\ v # "fallthru"
                    /\ ~GoesOnWith(v, labelled) /\ ~LeavesWith(v, labelled)
                 \/ LeavesWith(v, labelled) /\ w = "fallthru"
                 \/ /\ GoesOnWith(v, labelled)
                    /\ \/ w = "throw" /\ (cond = "throws" \/ step = "throws")
                       \/ w = "fallthru" /\ CanBe(cond, "false")
<1> DEFINE all == ways \cup If(Again(ways, labelled) /\ CanBe(cond, "true"), top)
<1>1. all \subseteq ways \cup top
  BY DEF If
<1>2. ways = {} => all = {}
  BY DEF If, Again
<1>3. w \in Leaves(all, labelled)
      \/ /\ Again(all, labelled)
         /\ w \in Throws(cond) \cup Throws(step) \cup If(CanBe(cond, "false"), {"fallthru"})
  BY DEF Rounds, If
<1> HIDE DEF all
<1>4. ASSUME NEW v
      PROVE  /\ GoesOnWith(v, labelled) <=> v \in {"fallthru"} \cup Own("continue", labelled)
             /\ LeavesWith(v, labelled) <=> v \in Own("break", labelled)
  BY DEF GoesOnWith, LeavesWith, Own, If
<1>5. CASE w \in Leaves(all, labelled)
  <2>1. CASE w \in all /\ ~GoesOnWith(w, labelled) /\ ~LeavesWith(w, labelled)
    BY <1>1, <1>2, <2>1 DEF GoesOnWith
  <2>2. CASE w = "fallthru" /\ all \cap Own("break", labelled) # {}
    BY <1>1, <1>2, <1>4, <2>2
  <2> QED
    BY <1>4, <1>5, <2>1, <2>2 DEF Leaves, If
<1>6. CASE /\ Again(all, labelled)
           /\ w \in Throws(cond) \cup Throws(step) \cup If(CanBe(cond, "false"), {"fallthru"})
  <2>1. PICK v \in all : GoesOnWith(v, labelled)
    BY <1>4, <1>6 DEF Again
  <2>2. \/ w = "throw" /\ (cond = "throws" \/ step = "throws")
        \/ w = "fallthru" /\ CanBe(cond, "false")
    BY <1>6, ThrowsFacts DEF If
  <2> QED
    BY <1>1, <1>2, <2>1, <2>2
<1> QED
  BY <1>3, <1>5, <1>6

LEMMA RoundsTyped ==
    ASSUME NEW ways \in SUBSET Ways, NEW top \in SUBSET Ways, NEW cond, NEW step,
           NEW labelled \in BOOLEAN
    PROVE  Rounds(ways, top, cond, step, labelled) \in SUBSET Ways
<1>1. ASSUME NEW w \in Rounds(ways, top, cond, step, labelled)
      PROVE  w \in Ways
  BY RoundsWays DEF Ways, Thrown
<1> QED
  BY <1>1

LEMMA LoopFields ==
    ASSUME NEW body \in Statements, NEW labelled \in BOOLEAN
    PROVE  /\ Loop(body, labelled) \in Statements
           /\ Loop(body, labelled).exits = body.exits
           /\ Loop(body, labelled).throws = body.throws
           /\ Loop(body, labelled).messages = body.messages
           /\ Loop(body, labelled).gaps = body.gaps
           /\ Loop(body, labelled).comeFrom <=> body.comeFrom \/ labelled
           /\ Loop(body, labelled).jumps =
                  body.jumps \ (Own("break", labelled) \cup Own("continue", labelled))
<1> DEFINE r == Loop(body, labelled)
           k == body.jumps \ (Own("break", labelled) \cup Own("continue", labelled))
           c == body.comeFrom \/ labelled
           l == body.label \/ labelled
<1>1. ASSUME NEW d \in BOOLEAN, d = c, NEW n \in BOOLEAN, n = l
      PROVE  r = [body EXCEPT !.hasCode = TRUE, !.last = "other", !.isCase = FALSE,
                              !.comeFrom = d, !.label = n, !.jumps = k]
  BY <1>1 DEF Loop, Statements
<1>2. k \in SUBSET Ways
  BY DEF Statements
<1> HIDE DEF r, k
<1>3. ASSUME NEW d \in BOOLEAN, NEW n \in BOOLEAN,
             r = [body EXCEPT !.hasCode = TRUE, !.last = "other", !.isCase = FALSE,
                              !.comeFrom = d, !.label = n, !.jumps = k]
      PROVE  /\ r \in Statements /\ r.exits = body.exits /\ r.throws = body.throws
             /\ r.messages = body.messages /\ r.gaps = body.gaps /\ r.comeFrom = d
             /\ r.jumps = k
  BY <1>2, <1>3 DEF Statements
<1> HIDE DEF c, l
<1>4. /\ r \in Statements /\ r.exits = body.exits /\ r.throws = body.throws
      /\ r.messages = body.messages /\ r.gaps = body.gaps /\ r.comeFrom = c /\ r.jumps = k
  BY <1>1, <1>3 DEF c, l
<1> QED
  BY <1>4 DEF r, k, c

\* The condition of a do loop is reached, as blockExit() sees it.
Reached(body) == {"fallthru", "continue"} \cap body.exits # {}

LEMMA DoFields ==
    ASSUME NEW body \in Statements, NEW cond \in Conditions, NEW labelled \in BOOLEAN
    PROVE  LET r == Do(body, cond, labelled)
               on == Reached(body)
           IN
           /\ r \in Statements
           /\ r.exits = DoExits(body.exits, cond) \cup Breaks(body, labelled)
           /\ r.throws <=> body.throws \/ (on /\ cond = "throws")
           /\ r.comeFrom <=> body.comeFrom \/ labelled
           /\ r.jumps = body.jumps \ (Own("break", labelled) \cup Own("continue", labelled))
           /\ body.gaps \subseteq r.gaps
           /\ r.gaps = {} /\ ~on =>
                  /\ "break" \in body.exits => body.exits = {"break"}
                  /\ labelled => "continue label" \notin body.jumps
           /\ \A e \in Entries : r.from[e] =
                  Rounds(body.from[IF e = "label" /\ labelled THEN "top" ELSE e],
                         body.from["top"], cond, "unknown", labelled)
<1> DEFINE r == Do(body, cond, labelled)
           on == Reached(body)
           l == Loop(body, labelled)
           x == DoExits(body.exits, cond) \cup Breaks(body, labelled)
           g == If(~on /\ "break" \in body.exits /\ body.exits # {"break"}, {"break out of do"})
           h == If(~on /\ labelled /\ "continue label" \in body.jumps,
                   {"labelled continue in do"})
           u == l.gaps \cup g \cup h
           f == [e \in Entries |->
                   Rounds(body.from[IF e = "label" /\ labelled THEN "top" ELSE e],
                          body.from["top"], cond, "unknown", labelled)]
<1>1. l \in Statements /\ l.throws \in BOOLEAN
  BY LoopFields DEF Statements
<1>2. x \in SUBSET BE /\ g \in SUBSET Gaps /\ h \in SUBSET Gaps
  BY ThrowsFacts DEF DoExits, Breaks, If, BE, Statements, Gaps
<1>0. u \in SUBSET Gaps
  BY <1>1, <1>2 DEF Statements
<1>3. f \in [Entries -> SUBSET Ways]
  <2>1. ASSUME NEW e \in Entries PROVE f[e] \in SUBSET Ways
    BY RoundsTyped, FromFacts DEF Entries
  <2> QED
    BY <2>1
<1>4. ASSUME NEW t \in BOOLEAN, t = (l.throws \/ (on /\ cond = "throws"))
      PROVE  r = [l EXCEPT !.exits = x, !.throws = t, !.gaps = u, !.from = f]
  BY <1>1, <1>4 DEF Do, Reached, Statements
<1>5. l.throws = body.throws /\ l.gaps = body.gaps
      /\ (l.comeFrom <=> body.comeFrom \/ labelled)
      /\ l.jumps = body.jumps \ (Own("break", labelled) \cup Own("continue", labelled))
  BY LoopFields
<1> HIDE DEF r, on, l, x, g, h, u, f
<1>6. ASSUME NEW t \in BOOLEAN,
             r = [l EXCEPT !.exits = x, !.throws = t, !.gaps = u, !.from = f]
      PROVE  /\ r \in Statements /\ r.exits = x /\ r.throws = t /\ r.comeFrom = l.comeFrom
             /\ r.jumps = l.jumps /\ r.gaps = u /\ r.from = f
  BY <1>0, <1>1, <1>2, <1>3, <1>6 DEF Statements
<1>7. /\ r \in Statements /\ r.exits = x /\ r.throws = (l.throws \/ (on /\ cond = "throws"))
      /\ r.comeFrom = l.comeFrom /\ r.jumps = l.jumps /\ r.gaps = u
      /\ r.from = f
  BY <1>4, <1>6
<1>8. /\ r.gaps = {} /\ ~on =>
             /\ "break" \in body.exits => body.exits = {"break"}
             /\ labelled => "continue label" \notin body.jumps
  BY <1>7 DEF u, g, h, If
<1>9. r.throws <=> body.throws \/ (on /\ cond = "throws")
  BY <1>5, <1>7
<1>10. \A e \in Entries : r.from[e] =
          Rounds(body.from[IF e = "label" /\ labelled THEN "top" ELSE e],
                 body.from["top"], cond, "unknown", labelled)
  BY <1>7 DEF f
<1> QED
  BY <1>5, <1>7, <1>8, <1>9, <1>10 DEF x, u, r, on

LEMMA DoKnown ==
    ASSUME NEW body, Known(body), NEW cond \in Conditions, NEW labelled \in BOOLEAN
    PROVE  Known(Do(body, cond, labelled))
<1> DEFINE r == Do(body, cond, labelled)
           on == Reached(body)
<1>1. body \in Statements
  BY DEF Known
<1>2. /\ r \in Statements
      /\ r.exits = DoExits(body.exits, cond) \cup Breaks(body, labelled)
      /\ r.throws <=> body.throws \/ (on /\ cond = "throws")
      /\ r.comeFrom <=> body.comeFrom \/ labelled
      /\ r.jumps = body.jumps \ (Own("break", labelled) \cup Own("continue", labelled))
      /\ body.gaps \subseteq r.gaps
      /\ r.gaps = {} /\ ~on =>
             /\ "break" \in body.exits => body.exits = {"break"}
             /\ labelled => "continue label" \notin body.jumps
      /\ \A e \in Entries : r.from[e] =
             Rounds(body.from[IF e = "label" /\ labelled THEN "top" ELSE e],
                    body.from["top"], cond, "unknown", labelled)
  BY <1>1, DoFields
<1> HIDE DEF r
<1>3. ASSUME NEW e \in Entries, NEW w \in r.from[e]
      PROVE  Fits(r, e, w)
  <2> DEFINE start == IF e = "label" /\ labelled THEN "top" ELSE e
  <2>1. start \in Entries /\ "top" \in Entries
    BY DEF Entries
  <2>2. body.from[start] \in SUBSET Ways /\ body.from["top"] \in SUBSET Ways
    BY <1>1, <2>1, FromFacts
  <2>3. w \in Rounds(body.from[start], body.from["top"], cond, "unknown", labelled)
    BY <1>2
  <2>4. body.from[start] # {}
    BY <2>2, <2>3, RoundsWays
  <2>5. ~r.comeFrom => e = "top"
    BY <2>4, <1>2 DEF Known, Entered, Entries
  <2>6. PICK v \in body.from[start] \cup body.from["top"] :
           \/ /\ w = v /\ v # "fallthru"
              /\ ~GoesOnWith(v, labelled) /\ ~LeavesWith(v, labelled)
           \/ LeavesWith(v, labelled) /\ w = "fallthru"
           \/ /\ GoesOnWith(v, labelled)
              /\ \/ w = "throw" /\ (cond = "throws" \/ "unknown" = "throws")
                 \/ w = "fallthru" /\ CanBe(cond, "false")
    BY <2>2, <2>3, RoundsWays
  <2>7. PICK d \in Entries : v \in body.from[d]
    BY <2>1
  <2>8. Fits(body, d, v) /\ v \in Ways
    BY <2>7, Known1
  <2>9. FlagOf("fallthru") = "fallthru" /\ FlagOf("throw") = "throw"
    BY DEF FlagOf, Gotos
  <2>10. CASE /\ w = v /\ v # "fallthru"
              /\ ~GoesOnWith(v, labelled) /\ ~LeavesWith(v, labelled)
    <3>1. w \in LabelJumps => w \in r.jumps
      BY <1>2, <2>8, <2>10 DEF Fits, LabelJumps, GoesOnWith, LeavesWith, Own, If
    <3>2. FlagOf(w) \notin {"fallthru", "break", "continue"}
      BY <2>8, <2>10, OtherFlags DEF GoesOnWith, LeavesWith
    <3>3. ASSUME r.gaps = {}
          PROVE  FlagOf(w) \in r.exits /\ (w = "throw" => r.throws)
      <4>1. FlagOf(w) \in body.exits /\ (w = "throw" => body.throws)
        BY <3>3, <1>2, <2>8, <2>10 DEF Fits
      <4>2. FlagOf(w) \in DoExits(body.exits, cond)
        BY <4>1, <3>2 DEF DoExits, If
      <4> QED
        BY <4>1, <4>2, <1>2
    <3> QED
      BY <3>1, <3>3, <2>5 DEF Fits
  <2>11. CASE LeavesWith(v, labelled) /\ w = "fallthru"
    <3>1. ASSUME r.gaps = {}
          PROVE  "fallthru" \in r.exits
      <4>1. CASE v = "break"
        <5>1. "break" \in body.exits
          <6>1. FlagOf(v) = v
            BY <2>8, <4>1, OtherFlags
          <6> QED
            BY <3>1, <1>2, <2>8, <4>1, <6>1 DEF Fits
        <5>2. CASE body.exits = {"break"}
          BY <5>2, <1>2 DEF DoExits
        <5>3. CASE body.exits # {"break"}
          <6>1. on
            BY <5>1, <5>3, <3>1, <1>2
          <6> QED
            BY <5>1, <5>3, <6>1, <1>2 DEF DoExits, If, Reached
        <5> QED
          BY <5>2, <5>3
      <4>2. CASE labelled /\ v = "break label"
        BY <4>2, <1>2, <2>8 DEF Fits, LabelJumps, Breaks, If
      <4> QED
        BY <2>11, <4>1, <4>2 DEF LeavesWith
    <3> QED
      BY <3>1, <2>5, <2>9, <2>11 DEF Fits, LabelJumps
  <2>12. CASE /\ GoesOnWith(v, labelled)
              /\ \/ w = "throw" /\ cond = "throws"
                 \/ w = "fallthru" /\ CanBe(cond, "false")
    <3>1. ASSUME r.gaps = {}
          PROVE  on
      <4>1. CASE v \in {"fallthru", "continue"}
        <5>1. FlagOf(v) = v
          BY <2>8, <4>1, OtherFlags
        <5> QED
          BY <3>1, <1>2, <2>8, <4>1, <5>1 DEF Fits, Reached
      <4>2. CASE labelled /\ v = "continue label"
        BY <3>1, <4>2, <1>2, <2>8 DEF Fits, LabelJumps
      <4> QED
        BY <2>12, <4>1, <4>2 DEF GoesOnWith
    <3>2. CASE w = "throw" /\ cond = "throws"
      <4>1. on => "throw" \in DoExits(body.exits, cond)
        BY <3>2 DEF DoExits, If, Throws, Reached
      <4> QED
        BY <3>1, <3>2, <4>1, <1>2, <2>5, <2>9 DEF Fits, LabelJumps
    <3>3. CASE w = "fallthru" /\ CanBe(cond, "false")
      <4>1. on => "fallthru" \in DoExits(body.exits, cond)
        BY <3>3 DEF DoExits, If, CanBe, Reached
      <4> QED
        BY <3>1, <3>3, <4>1, <1>2, <2>5, <2>9 DEF Fits, LabelJumps
    <3> QED
      BY <2>12, <3>2, <3>3
  <2> QED
    BY <2>6, <2>10, <2>11, <2>12
<1>4. Known(r)
  BY <1>2, <1>3, KnownAll
<1> QED
  BY <1>4 DEF r

\* A loop begins anew at its top and, with its label, at the label.
AtTop(e, labelled) == e = "top" \/ (e = "label" /\ labelled)

LEMMA ForFields ==
    ASSUME NEW body \in Statements, NEW cond \in Conditions, NEW increment \in Conditions,
           NEW labelled \in BOOLEAN
    PROVE  LET r == For(body, cond, increment, labelled) IN
           /\ r \in Statements
           /\ r.exits = ForExits(body.exits, cond, increment) \cup Breaks(body, labelled)
           /\ r.throws <=> \/ cond = "throws"
                           \/ cond # "false" /\ (body.throws \/ increment = "throws")
           /\ r.comeFrom <=> body.comeFrom \/ labelled
           /\ r.jumps = body.jumps \ (Own("break", labelled) \cup Own("continue", labelled))
           /\ body.gaps \subseteq r.gaps
           /\ r.gaps = {} => ~(cond = "false" /\ body.comeFrom)
           /\ \A e \in Entries : \A w \in r.from[e] :
                 \/ AtTop(e, labelled) /\ w \in Throws(cond)
                 \/ AtTop(e, labelled) /\ w = "fallthru" /\ CanBe(cond, "false")
                 \/ \E d \in Entries :
                       /\ d # "top" => d = e
                       /\ d = "top" => AtTop(e, labelled) /\ CanBe(cond, "true")
                       /\ w \in Rounds(body.from[d], body.from["top"], cond, increment, labelled)
<1> DEFINE r == For(body, cond, increment, labelled)
           l == Loop(body, labelled)
           x == ForExits(body.exits, cond, increment) \cup Breaks(body, labelled)
           g == If(cond = "false" /\ body.comeFrom,
                   {"label where a constant condition does not lead"})
           u == l.gaps \cup g
           m == If(cond # "false", l.messages)
           mayThrow == \/ cond = "throws"
                       \/ cond # "false" /\ (body.throws \/ increment = "throws")
           f == [e \in Entries |->
                   IF e = "top" \/ (e = "label" /\ labelled)
                   THEN Throws(cond) \cup If(CanBe(cond, "false"), {"fallthru"})
                        \cup If(CanBe(cond, "true"),
                                Rounds(body.from["top"], body.from["top"], cond, increment, labelled))
                   ELSE Rounds(body.from[e], body.from["top"], cond, increment, labelled)]
<1>1. l \in Statements
  BY LoopFields
<1>2. x \in SUBSET BE
  BY ThrowsFacts DEF ForExits, Breaks, If, BE, Statements
<1>3. u \in SUBSET Gaps /\ m \in SUBSET Messages
  BY <1>1 DEF If, Statements, Gaps
<1>4. ASSUME NEW e \in Entries
      PROVE  f[e] \in SUBSET Ways
  <2>1. body.from["top"] \in SUBSET Ways /\ body.from[e] \in SUBSET Ways
    BY FromFacts DEF Entries
  <2>2. /\ Rounds(body.from["top"], body.from["top"], cond, increment, labelled) \in SUBSET Ways
        /\ Rounds(body.from[e], body.from["top"], cond, increment, labelled) \in SUBSET Ways
    BY <2>1, RoundsTyped
  <2> QED
    BY <2>2, ThrowsFacts DEF If, Ways
<1>5. f \in [Entries -> SUBSET Ways]
  BY <1>4
<1>6. ASSUME NEW e \in Entries, NEW w \in f[e]
      PROVE  \/ AtTop(e, labelled) /\ w \in Throws(cond)
             \/ AtTop(e, labelled) /\ w = "fallthru" /\ CanBe(cond, "false")
             \/ \E d \in Entries :
                   /\ d # "top" => d = e
                   /\ d = "top" => AtTop(e, labelled) /\ CanBe(cond, "true")
                   /\ w \in Rounds(body.from[d], body.from["top"], cond, increment, labelled)
  <2>1. "top" \in Entries
    BY DEF Entries
  <2>2. CASE AtTop(e, labelled)
    BY <1>6, <2>1, <2>2 DEF If, AtTop
  <2>3. CASE ~AtTop(e, labelled)
    BY <1>6, <2>3 DEF AtTop
  <2> QED
    BY <2>2, <2>3
<1>7. ASSUME NEW t \in BOOLEAN, t = mayThrow
      PROVE  r = [l EXCEPT !.exits = x, !.throws = t, !.messages = m, !.gaps = u, !.from = f]
  BY <1>1, <1>7 DEF For, Statements
<1>8. l.gaps = body.gaps
      /\ (l.comeFrom <=> body.comeFrom \/ labelled)
      /\ l.jumps = body.jumps \ (Own("break", labelled) \cup Own("continue", labelled))
  BY LoopFields
<1> HIDE DEF r, l, x, g, u, m, mayThrow, f
<1>9. ASSUME NEW t \in BOOLEAN,
             r = [l EXCEPT !.exits = x, !.throws = t, !.messages = m, !.gaps = u, !.from = f]
      PROVE  /\ r \in Statements /\ r.exits = x /\ r.throws = t /\ r.comeFrom = l.comeFrom
             /\ r.jumps = l.jumps /\ r.gaps = u /\ r.from = f
  BY <1>1, <1>2, <1>3, <1>5, <1>9 DEF Statements
<1>10. /\ r \in Statements /\ r.exits = x /\ r.throws = mayThrow /\ r.comeFrom = l.comeFrom
       /\ r.jumps = l.jumps /\ r.gaps = u /\ r.from = f
  BY <1>7, <1>9 DEF mayThrow
<1>11. r.gaps = {} => ~(cond = "false" /\ body.comeFrom)
  BY <1>10 DEF u, g, If
<1> QED
  BY <1>6, <1>8, <1>10, <1>11 DEF x, u, r, mayThrow

LEMMA ForKnown ==
    ASSUME NEW body, Known(body), NEW cond \in Conditions, NEW increment \in Conditions,
           NEW labelled \in BOOLEAN
    PROVE  Known(For(body, cond, increment, labelled))
<1> DEFINE r == For(body, cond, increment, labelled)
<1>1. body \in Statements
  BY DEF Known
<1>2. /\ r \in Statements
      /\ r.exits = ForExits(body.exits, cond, increment) \cup Breaks(body, labelled)
      /\ r.throws <=> \/ cond = "throws"
                      \/ cond # "false" /\ (body.throws \/ increment = "throws")
      /\ r.comeFrom <=> body.comeFrom \/ labelled
      /\ r.jumps = body.jumps \ (Own("break", labelled) \cup Own("continue", labelled))
      /\ body.gaps \subseteq r.gaps
      /\ r.gaps = {} => ~(cond = "false" /\ body.comeFrom)
  BY <1>1, ForFields
<1>3. ASSUME NEW e \in Entries, NEW w \in r.from[e]
      PROVE  \/ AtTop(e, labelled) /\ w \in Throws(cond)
             \/ AtTop(e, labelled) /\ w = "fallthru" /\ CanBe(cond, "false")
             \/ \E d \in Entries :
                   /\ d # "top" => d = e
                   /\ d = "top" => AtTop(e, labelled) /\ CanBe(cond, "true")
                   /\ w \in Rounds(body.from[d], body.from["top"], cond, increment, labelled)
  BY <1>1, ForFields
<1> HIDE DEF r
<1>4. FlagOf("fallthru") = "fallthru" /\ FlagOf("throw") = "throw"
  BY DEF FlagOf, Gotos
<1>5. ASSUME NEW e \in Entries, NEW w \in r.from[e]
      PROVE  Fits(r, e, w)
  <2>1. CASE AtTop(e, labelled) /\ w \in Throws(cond)
    <3>1. w = "throw" /\ cond = "throws" /\ w \in Throws(cond)
      BY <2>1, ThrowsFacts
    <3> QED
      BY <2>1, <3>1, <1>2, <1>4 DEF Fits, AtTop, LabelJumps, ForExits
  <2>2. CASE AtTop(e, labelled) /\ w = "fallthru" /\ CanBe(cond, "false")
    BY <2>2, <1>2, <1>4 DEF Fits, AtTop, LabelJumps, ForExits, If
  <2>3. ASSUME NEW d \in Entries, d # "top" => d = e,
               d = "top" => AtTop(e, labelled) /\ CanBe(cond, "true"),
               w \in Rounds(body.from[d], body.from["top"], cond, increment, labelled)
        PROVE  Fits(r, e, w)
    <3>1. body.from[d] \in SUBSET Ways /\ body.from["top"] \in SUBSET Ways
      BY <1>1, FromFacts DEF Entries
    <3>2. body.from[d] # {}
      BY <2>3, <3>1, RoundsWays
    <3>3. ~body.comeFrom => d = "top"
      BY <3>2 DEF Known, Entered, Entries
    <3>4. ~r.comeFrom => e = "top"
      BY <2>3, <3>3, <1>2 DEF AtTop
    <3>5. r.gaps = {} => cond # "false"
      BY <2>3, <3>3, <1>2 DEF CanBe
    <3>6. PICK v \in body.from[d] \cup body.from["top"] :
             \/ /\ w = v /\ v # "fallthru"
                /\ ~GoesOnWith(v, labelled) /\ ~LeavesWith(v, labelled)
             \/ LeavesWith(v, labelled) /\ w = "fallthru"
             \/ /\ GoesOnWith(v, labelled)
                /\ \/ w = "throw" /\ (cond = "throws" \/ increment = "throws")
                   \/ w = "fallthru" /\ CanBe(cond, "false")
      BY <2>3, <3>1, RoundsWays
    <3>7. PICK c \in Entries : v \in body.from[c]
      BY <3>6 DEF Entries
    <3>8. Fits(body, c, v) /\ v \in Ways
      BY <3>7, Known1
    <3>9. CASE /\ w = v /\ v # "fallthru"
               /\ ~GoesOnWith(v, labelled) /\ ~LeavesWith(v, labelled)
      <4>1. w \in LabelJumps => w \in r.jumps
        BY <1>2, <3>8, <3>9 DEF Fits, LabelJumps, GoesOnWith, LeavesWith, Own, If
      <4>2. FlagOf(w) \notin {"fallthru", "break", "continue"}
        BY <3>8, <3>9, OtherFlags DEF GoesOnWith, LeavesWith
      <4>3. ASSUME r.gaps = {}
            PROVE  FlagOf(w) \in r.exits /\ (w = "throw" => r.throws)
        <5>1. FlagOf(w) \in body.exits /\ (w = "throw" => body.throws)
          BY <4>3, <1>2, <3>8, <3>9 DEF Fits
        <5> QED
          BY <5>1, <4>2, <4>3, <3>5, <1>2 DEF ForExits
      <4> QED
        BY <4>1, <4>3, <3>4 DEF Fits
    <3>10. CASE LeavesWith(v, labelled) /\ w = "fallthru"
      <4>1. FlagOf(v) \in {"break", "goto"}
        BY <3>8, <3>10, OtherFlags, FlagFacts DEF LeavesWith, Gotos
      <4>2. r.gaps = {} => "fallthru" \in ForExits(body.exits, cond, increment)
        BY <4>1, <3>5, <3>8, <1>2 DEF Fits, ForExits, If
      <4> QED
        BY <4>2, <3>4, <3>10, <1>2, <1>4 DEF Fits, LabelJumps
    <3>11. CASE w = "throw" /\ (cond = "throws" \/ increment = "throws")
      <4>1. r.gaps = {} => "throw" \in ForExits(body.exits, cond, increment)
        BY <3>5, <3>11, ThrowsFacts DEF ForExits
      <4> QED
        BY <4>1, <3>4, <3>5, <3>11, <1>2, <1>4 DEF Fits, LabelJumps
    <3>12. CASE w = "fallthru" /\ CanBe(cond, "false")
      <4>1. "fallthru" \in ForExits(body.exits, cond, increment)
        BY <3>12 DEF ForExits, If
      <4> QED
        BY <4>1, <3>4, <3>12, <1>2, <1>4 DEF Fits, LabelJumps
    <3> QED
      BY <3>6, <3>9, <3>10, <3>11, <3>12
  <2>4. CASE ~(\/ AtTop(e, labelled) /\ w \in Throws(cond)
               \/ AtTop(e, labelled) /\ w = "fallthru" /\ CanBe(cond, "false"))
    <3>1. PICK d \in Entries :
             /\ d # "top" => d = e
             /\ d = "top" => AtTop(e, labelled) /\ CanBe(cond, "true")
             /\ w \in Rounds(body.from[d], body.from["top"], cond, increment, labelled)
      BY <1>3, <2>4
    <3> QED
      BY <3>1, <2>3
  <2> QED
    BY <2>1, <2>2, <2>4
<1>6. Known(r)
  BY <1>2, <1>5, KnownAll
<1> QED
  BY <1>6 DEF r

LEMMA UnrolledKnown ==
    ASSUME NEW a, NEW b, Known(a), Known(b)
    PROVE  Known(Unrolled(a, b))
<1> DEFINE On(ways) == ways \cap {"fallthru", "continue"} # {}
           Stays(flags) == flags \cap {"fallthru", "continue", "break"} # {}
           all == a.from.top \cup If(On(a.from.top), b.from.top)
           out == (all \ {"fallthru", "break", "continue"})
                  \cup If("break" \in all \/ (On(a.from.top) /\ On(b.from.top)), {"fallthru"})
           x == UnrolledExits(a.exits, b.exits)
           j == Joined(a, b)
           k == j.jumps \ {"break", "continue"}
           g == If("break" \in a.exits /\ b.exits \cap {"fallthru", "continue", "break"} = {},
                   {"break in foreach over a tuple"})
           u == j.gaps \cup g
           f == Only(out)
           r == Unrolled(a, b)
<1>1. a \in Statements /\ b \in Statements
  BY DEF Known
<1>2. j \in Statements
  BY <1>1, JoinedTyped
<1>3. x \in SUBSET BE /\ k \in SUBSET Ways /\ u \in SUBSET Gaps
  BY <1>1, <1>2 DEF UnrolledExits, If, BE, Statements, Gaps
<1>4. out \in SUBSET Ways
  BY <1>1, FromFacts DEF If, Ways, Entries
<1>5. r = [j EXCEPT !.exits = x, !.jumps = k, !.gaps = u, !.from = f]
  BY <1>2 DEF Unrolled, Statements
<1>6. /\ j.throws <=> a.throws \/ b.throws
      /\ j.jumps = a.jumps \cup b.jumps /\ j.gaps = a.gaps \cup b.gaps
  BY <1>1, JoinedFacts
<1>7. ASSUME NEW w \in out
      PROVE  \/ /\ w \in a.from["top"] \cup b.from["top"]
                /\ w \notin {"fallthru", "break", "continue"}
             \/ w = "fallthru" /\ On(a.from["top"]) /\ On(b.from["top"])
             \/ w = "fallthru" /\ "break" \in a.from["top"]
             \/ w = "fallthru" /\ On(a.from["top"]) /\ "break" \in b.from["top"]
  BY DEF If
<1> HIDE DEF r, j, out
<1>8. f \in [Entries -> SUBSET Ways]
      /\ \A e \in Entries : f[e] = IF e = "top" THEN out ELSE {}
  BY <1>4 DEF Only
<1> HIDE DEF x, k, u, g, f
<1>9. /\ r \in Statements /\ r.exits = x /\ r.throws = j.throws
      /\ r.jumps = k /\ r.gaps = u /\ r.from = f
  BY <1>2, <1>3, <1>5, <1>8 DEF Statements
<1>10. ASSUME r.gaps = {}
       PROVE  /\ a.gaps = {} /\ b.gaps = {}
              /\ "break" \in a.exits => Stays(b.exits)
  BY <1>6, <1>9, <1>10 DEF u, g, If
<1>11. "top" \in Entries
  BY DEF Entries
<1>12. ASSUME r.gaps = {}
       PROVE  /\ On(a.from["top"]) => Stays(a.exits)
              /\ "break" \in a.from["top"] => "break" \in a.exits
              /\ On(b.from["top"]) \/ "break" \in b.from["top"] => Stays(b.exits)
  <2>1. /\ FlagOf("fallthru") = "fallthru" /\ FlagOf("continue") = "continue"
        /\ FlagOf("break") = "break"
    BY DEF FlagOf, Gotos
  <2>2. ASSUME NEW w \in {"fallthru", "continue", "break"}
        PROVE  /\ w \in a.from["top"] => w \in a.exits
               /\ w \in b.from["top"] => w \in b.exits
    BY <1>10, <1>11, <1>12, <2>1, Known1 DEF Fits
  <2> QED
    BY <2>2
<1>13. ASSUME NEW e \in Entries, NEW w \in r.from[e]
       PROVE  Fits(r, e, w)
  <2>1. e = "top" /\ w \in out
    BY <1>8, <1>9
  <2>2. ASSUME NEW c \in {a, b}, w \in c.from["top"], w \notin {"fallthru", "break", "continue"}
        PROVE  Fits(r, e, w)
    <3>1. Fits(c, "top", w) /\ w \in Ways
      BY <2>2, <1>11, Known1
    <3>2. FlagOf(w) \notin {"fallthru", "break", "continue"}
      BY <2>2, <3>1, OtherFlags
    <3>3. w \in LabelJumps => w \in r.jumps
      BY <2>2, <3>1, <1>6, <1>9 DEF Fits, k
    <3>4. ASSUME r.gaps = {}
          PROVE  FlagOf(w) \in r.exits /\ (w = "throw" => r.throws)
      BY <3>1, <3>2, <3>4, <2>2, <1>6, <1>9, <1>10 DEF Fits, x, UnrolledExits
    <3> QED
      BY <3>3, <3>4, <2>1 DEF Fits
  <2>3. CASE /\ w = "fallthru"
             /\ \/ On(a.from["top"]) /\ On(b.from["top"])
                \/ "break" \in a.from["top"]
                \/ On(a.from["top"]) /\ "break" \in b.from["top"]
    <3>1. ASSUME r.gaps = {}
          PROVE  Stays(a.exits) /\ Stays(b.exits)
      BY <2>3, <3>1, <1>10, <1>12
    <3>2. r.gaps = {} => "fallthru" \in r.exits
      BY <3>1, <1>9 DEF x, UnrolledExits, If
    <3>3. FlagOf("fallthru") = "fallthru"
      BY DEF FlagOf, Gotos
    <3> QED
      BY <2>1, <2>3, <3>2, <3>3 DEF Fits, LabelJumps
  <2> QED
    BY <1>7, <2>1, <2>2, <2>3
<1>14. Known(r)
  BY <1>9, <1>13, KnownAll
<1> QED
  BY <1>14 DEF r

-----------------------------------------------------------------------------
(* Try statements                                                          *)

LEMMA FailureKnown ==
    ASSUME NEW a, NEW b, Known(a), Known(b)
    PROVE  Known(Failure(a, b))
<1> DEFINE thrown == a.from.top \cap Thrown
           left == IF "fallthru" \in b.exits THEN a.exits
                   ELSE a.exits \ CaughtBy("Throwable")
           out == (a.from.top \ Thrown)
                  \cup If(thrown # {}, b.from.top \ {"fallthru"})
                  \cup If("fallthru" \in b.from.top, thrown)
           x == FailureExits(a.exits, b.exits)
           j == Joined(a, b)
           f == Only(out)
           mayThrow == ("throw" \in left /\ a.throws) \/ b.throws
           r == Failure(a, b)
<1>1. a \in Statements /\ b \in Statements
  BY DEF Known
<1>2. j \in Statements
  BY <1>1, JoinedTyped
<1>3. x \in SUBSET BE
  BY <1>1 DEF FailureExits, Statements
<1>4. out \in SUBSET Ways
  BY <1>1, FromFacts DEF If, Entries
<1>5. ASSUME NEW t \in BOOLEAN, t = mayThrow
      PROVE  r = [j EXCEPT !.exits = x, !.throws = t, !.from = f]
  BY <1>5 DEF Failure
<1>6. j.jumps = a.jumps \cup b.jumps /\ j.gaps = a.gaps \cup b.gaps
  BY <1>1, JoinedFacts
<1>7. ASSUME NEW w \in out
      PROVE  \/ w \in a.from["top"] /\ w \notin Thrown
             \/ w \in b.from["top"] /\ w # "fallthru"
             \/ w \in a.from["top"] /\ "fallthru" \in b.from["top"]
  BY DEF If
<1> HIDE DEF r, j, out
<1>8. f \in [Entries -> SUBSET Ways]
      /\ \A e \in Entries : f[e] = IF e = "top" THEN out ELSE {}
  BY <1>4 DEF Only
<1> HIDE DEF x, f, mayThrow
<1>9. ASSUME NEW t \in BOOLEAN,
             r = [j EXCEPT !.exits = x, !.throws = t, !.from = f]
      PROVE  /\ r \in Statements /\ r.exits = x /\ r.throws = t
             /\ r.jumps = j.jumps /\ r.gaps = j.gaps /\ r.from = f
  BY <1>2, <1>3, <1>8, <1>9 DEF Statements
<1>10. /\ r \in Statements /\ r.exits = x /\ r.throws = mayThrow
       /\ r.jumps = j.jumps /\ r.gaps = j.gaps /\ r.from = f
  BY <1>5, <1>9 DEF mayThrow
<1>11. "top" \in Entries /\ FlagOf("fallthru") = "fallthru"
  BY DEF Entries, FlagOf, Gotos
<1>12. CaughtBy("Throwable") = {"throw", "errthrow"}
  BY DEF CaughtBy
<1>13. ASSUME NEW e \in Entries, NEW w \in r.from[e]
       PROVE  Fits(r, e, w)
  <2>1. e = "top" /\ w \in out
    BY <1>8, <1>10
  <2>2. CASE w \in a.from["top"] /\ (w \notin Thrown \/ "fallthru" \in b.from["top"])
    <3>1. Fits(a, "top", w) /\ w \in Ways
      BY <2>2, <1>11, Known1
    <3>2. w \notin Thrown => FlagOf(w) \notin {"throw", "errthrow"}
      BY <3>1, OtherFlags DEF Thrown
    <3>3. r.gaps = {} /\ "fallthru" \in b.from["top"] => "fallthru" \in b.exits
      BY <1>6, <1>10, <1>11, Known1 DEF Fits
    <3>4. ASSUME r.gaps = {}
          PROVE  FlagOf(w) \in r.exits /\ (w = "throw" => r.throws)
      <4>1. FlagOf(w) \in a.exits /\ (w = "throw" => a.throws)
        BY <3>1, <3>4, <1>6, <1>10 DEF Fits
      <4>2. FlagOf(w) \in left
        BY <4>1, <3>2, <3>3, <3>4, <2>2, <1>12
      <4>3. w = "throw" => FlagOf(w) = "throw"
        BY <3>1, OtherFlags
      <4> QED
        BY <4>1, <4>2, <4>3, <1>10, <1>12 DEF x, FailureExits, mayThrow
    <3> QED
      BY <2>1, <3>1, <3>4, <1>6, <1>10 DEF Fits
  <2>3. CASE w \in b.from["top"] /\ w # "fallthru"
    <3>1. Fits(b, "top", w) /\ FlagOf(w) # "fallthru"
      BY <2>3, <1>11, Known1, OtherFlags
    <3> QED
      BY <2>1, <3>1, <1>6, <1>10 DEF Fits, x, FailureExits, mayThrow
  <2> QED
    BY <1>7, <2>1, <2>2, <2>3
<1>14. Known(r)
  BY <1>10, <1>13, KnownAll
<1> QED
  BY <1>14 DEF r

LEMMA TryFinallyKnown ==
    ASSUME NEW a, NEW b, Known(a), Known(b)
    PROVE  Known(TryFinally(a, b))
<1> DEFINE out == TryFinallyWays(a.from.top, b.from.top)
           x == TryFinallyExits(a.exits, b.exits)
           j == Joined(a, b)
           f == Only(out)
           mayThrow == \/ "throw" \in a.exits /\ b.exits # {"halt"} /\ a.throws
                       \/ "throw" \in b.exits /\ a.exits # {"halt"} /\ b.throws
           r == TryFinally(a, b)
<1>1. a \in Statements /\ b \in Statements
  BY DEF Known
<1>2. j \in Statements
  BY <1>1, JoinedTyped
<1>3. x \in SUBSET BE
  BY <1>1 DEF TryFinallyExits, If, Statements
<1>4. out \in SUBSET Ways
  BY <1>1, FromFacts DEF TryFinallyWays, Then, If, Entries
<1>5. ASSUME NEW t \in BOOLEAN, t = mayThrow, a.exits \ {"halt"} # {"fallthru"}
      PROVE  r = [j EXCEPT !.exits = x, !.throws = t, !.from = f]
  BY <1>5 DEF TryFinally
<1>6. j.jumps = a.jumps \cup b.jumps /\ j.gaps = a.gaps \cup b.gaps
  BY <1>1, JoinedFacts
<1>7. ASSUME NEW w \in out
      PROVE  \/ w = "halt" /\ w \in a.from["top"]
             \/ /\ \E v \in a.from["top"] : v # "halt"
                /\ w \in b.from["top"] /\ w # "fallthru"
             \/ /\ w \in a.from["top"] /\ w # "halt"
                /\ "fallthru" \in b.from["top"]
  BY DEF TryFinallyWays, Then, If
<1>8. a.exits \ {"halt"} = {"fallthru"} => r = Compound(a, b)
  BY DEF TryFinally
<1> HIDE DEF r, j, out
<1>9. f \in [Entries -> SUBSET Ways]
      /\ \A e \in Entries : f[e] = IF e = "top" THEN out ELSE {}
  BY <1>4 DEF Only
<1> HIDE DEF x, f, mayThrow
<1>10. ASSUME NEW t \in BOOLEAN,
              r = [j EXCEPT !.exits = x, !.throws = t, !.from = f]
       PROVE  /\ r \in Statements /\ r.exits = x /\ r.throws = t
              /\ r.jumps = j.jumps /\ r.gaps = j.gaps /\ r.from = f
  BY <1>2, <1>3, <1>9, <1>10 DEF Statements
<1>11. "top" \in Entries /\ FlagOf("fallthru") = "fallthru" /\ FlagOf("halt") = "halt"
       /\ FlagOf("throw") = "throw"
  BY DEF Entries, FlagOf, Gotos
<1>12. ASSUME a.exits \ {"halt"} # {"fallthru"}
       PROVE  Known(r)
  <2>1. /\ r \in Statements /\ r.exits = x /\ r.throws = mayThrow
        /\ r.jumps = j.jumps /\ r.gaps = j.gaps /\ r.from = f
    BY <1>5, <1>10, <1>12 DEF mayThrow
  <2>2. ASSUME NEW e \in Entries, NEW w \in r.from[e]
        PROVE  Fits(r, e, w)
    <3>1. e = "top" /\ w \in out
      BY <1>9, <2>1
    <3>2. ASSUME r.gaps = {}, NEW v \in a.from["top"], v # "halt"
          PROVE  a.exits # {"halt"}
      <4>1. Fits(a, "top", v) /\ FlagOf(v) # "halt"
        BY <3>2, <1>11, Known1, OtherFlags
      <4> QED
        BY <4>1, <3>2, <1>6, <2>1 DEF Fits
    <3>3. CASE w = "halt" /\ w \in a.from["top"]
      <4>1. r.gaps = {} => "halt" \in a.exits
        BY <3>3, <1>6, <1>11, <2>1, Known1 DEF Fits
      <4>2. r.gaps = {} => "halt" \in r.exits
        BY <4>1, <2>1 DEF x, TryFinallyExits, If
      <4> QED
        BY <4>2, <3>1, <3>3, <1>11 DEF Fits, LabelJumps
    <3>4. CASE /\ \E v \in a.from["top"] : v # "halt"
               /\ w \in b.from["top"] /\ w # "fallthru"
      <4>1. r.gaps = {} => a.exits # {"halt"}
        BY <3>2, <3>4
      <4>2. Fits(b, "top", w) /\ FlagOf(w) # "fallthru"
        BY <3>4, <1>11, Known1, OtherFlags
      <4>3. ASSUME r.gaps = {}
            PROVE  FlagOf(w) \in b.exits /\ (w = "throw" => b.throws)
        BY <4>2, <4>3, <1>6, <2>1 DEF Fits
      <4>4. r.gaps = {} => FlagOf(w) \in r.exits
        BY <4>1, <4>2, <4>3, <2>1 DEF x, TryFinallyExits
      <4>5. r.gaps = {} /\ w = "throw" => r.throws
        BY <4>1, <4>3, <1>11, <2>1 DEF mayThrow
      <4> QED
        BY <4>2, <4>4, <4>5, <3>1, <1>6, <2>1 DEF Fits
    <3>5. CASE w \in a.from["top"] /\ w # "halt" /\ "fallthru" \in b.from["top"]
      <4>1. r.gaps = {} => a.exits # {"halt"}
        BY <3>2, <3>5
      <4>2. r.gaps = {} => "fallthru" \in b.exits
        BY <3>5, <1>6, <1>11, <2>1, Known1 DEF Fits
      <4>3. Fits(a, "top", w)
        BY <3>5, <1>11, Known1
      <4>4. ASSUME r.gaps = {}
            PROVE  FlagOf(w) \in a.exits /\ (w = "throw" => a.throws)
        BY <4>3, <4>4, <1>6, <2>1 DEF Fits
      <4>5. r.gaps = {} => FlagOf(w) \in r.exits
        BY <4>1, <4>2, <4>4, <2>1 DEF x, TryFinallyExits, If
      <4>6. r.gaps = {} /\ w = "throw" => r.throws
        BY <4>2, <4>4, <1>11, <2>1 DEF mayThrow
      <4> QED
        BY <4>3, <4>5, <4>6, <3>1, <1>6, <2>1 DEF Fits
    <3> QED
      BY <1>7, <3>1, <3>3, <3>4, <3>5
  <2> QED
    BY <2>1, <2>2, KnownAll
<1>13. ASSUME a.exits \ {"halt"} = {"fallthru"}
       PROVE  Known(r)
  BY <1>8, <1>13, CompoundKnown
<1>14. Known(r)
  BY <1>12, <1>13
<1> QED
  BY <1>14 DEF r

\* The clauses of a try statement, one or two.
IsClauses(catches) ==
    /\ catches \in Seq([type : CatchTypes, handler : Statements])
    /\ Len(catches) \in {1, 2}
    /\ \A c \in Elements(catches) : Known(c.handler)

LEMMA ClausesFacts ==
    ASSUME NEW catches, IsClauses(catches)
    PROVE  /\ \A c \in Elements(catches) :
                 c.type \in CatchTypes /\ c.handler \in Statements /\ Known(c.handler)
           /\ catches[1] \in Elements(catches)
           /\ Len(catches) = 2 => catches[2] \in Elements(catches)
           /\ \A c \in Elements(catches) :
                 c = catches[1] \/ (Len(catches) = 2 /\ c = catches[2])
<1>1. /\ catches \in Seq([type : CatchTypes, handler : Statements])
      /\ Len(catches) \in {1, 2} /\ DOMAIN catches = 1..Len(catches)
  BY DEF IsClauses
<1>2. 1 \in DOMAIN catches /\ (Len(catches) = 2 => 2 \in DOMAIN catches)
      /\ \A i \in DOMAIN catches : i = 1 \/ (i = 2 /\ Len(catches) = 2)
  BY <1>1
<1>3. \A i \in DOMAIN catches : catches[i] \in [type : CatchTypes, handler : Statements]
  <2> DEFINE clause == [type : CatchTypes, handler : Statements]
  <2>1. catches \in Seq(clause) /\ DOMAIN catches = 1..Len(catches)
    BY <1>1
  <2> HIDE DEF clause
  <2>2. \A i \in DOMAIN catches : catches[i] \in clause
    BY <2>1
  <2> QED
    BY <2>2 DEF clause
<1>4. \A c \in Elements(catches) : \E i \in DOMAIN catches : c = catches[i]
  BY DEF Elements
<1> QED
  BY <1>2, <1>3, <1>4 DEF Elements, IsClauses

\* What gets past the clauses is in the flags that blockExit() leaves of the body.
LEMMA TryCatchOut ==
    ASSUME NEW body, Known(body), NEW catches, IsClauses(catches), body.gaps = {},
           ~("throwable" \in body.from["top"]
               /\ \E c \in Kept(body, catches) : c.type = "Exception"),
           NEW w \in TryCatchWays(body.from["top"], catches)
    PROVE  \/ /\ w \in body.from["top"]
              /\ FlagOf(w) \in Uncaught(body.exits, Kept(body, catches))
           \/ \E c \in Kept(body, catches) : w \in c.handler.from["top"]
<1> DEFINE ways == body.from["top"]
           thrown == ways \cap Thrown
           left == thrown \ Catches(catches[1].type)
           kept == Kept(body, catches)
<1>1. "top" \in Entries /\ Len(catches) \in {1, 2}
  BY DEF Entries, IsClauses
<1>2. \A v \in ways : v \in Ways /\ FlagOf(v) \in body.exits
  BY <1>1, Known1 DEF Fits
<1>3. kept \subseteq Elements(catches)
  BY DEF Kept
<1>4. \/ w \in ways /\ w \notin Thrown
      \/ /\ w \in thrown /\ w \notin Catches(catches[1].type)
         /\ Len(catches) = 2 => w \notin Catches(catches[2].type)
      \/ /\ \E v \in thrown : v \in MayCatch(catches[1].type)
         /\ w \in catches[1].handler.from["top"]
      \/ /\ Len(catches) = 2 /\ \E v \in thrown : v \in MayCatch(catches[2].type)
         /\ w \in catches[2].handler.from["top"]
  BY <1>1 DEF TryCatchWays, If
<1>5. CASE w \in ways /\ w \notin Thrown
  <2>1. FlagOf(w) \notin {"throw", "errthrow"}
    BY <1>2, <1>5, OtherFlags DEF Thrown
  <2> QED
    BY <1>2, <1>5, <2>1 DEF Uncaught, CaughtBy
<1>6. CASE /\ w \in thrown /\ w \notin Catches(catches[1].type)
           /\ Len(catches) = 2 => w \notin Catches(catches[2].type)
  <2>1. ASSUME NEW c \in kept
        PROVE  FlagOf(w) \notin CaughtBy(c.type)
    <3>1. c.type \in CatchTypes /\ w \notin Catches(c.type)
      BY <1>3, <1>6, ClausesFacts
    <3>2. c.type # "Throwable"
      BY <1>6, <3>1 DEF Catches, MayCatch
    <3>3. ASSUME c.type = "Exception"
          PROVE  FlagOf(w) # "throw"
      <4>1. w # "throw"
        BY <3>1, <3>3 DEF Catches, MayCatch
      <4>2. w # "throwable"
        BY <1>6, <3>3
      <4> QED
        BY <1>2, <1>6, <4>1, <4>2, OtherFlags
    <3> QED
      BY <3>1, <3>2, <3>3 DEF CaughtBy, CatchTypes
  <2> QED
    BY <1>2, <1>6, <2>1 DEF Uncaught
<1>7. ASSUME NEW c \in Elements(catches), NEW v \in thrown, v \in MayCatch(c.type)
      PROVE  c \in kept
  <2>1. c.type \in {"Exception", "derived"} => v = "throw"
    BY <1>7 DEF MayCatch
  <2>2. FlagOf("throw") = "throw"
    BY DEF FlagOf, Gotos
  <2> QED
    BY <1>2, <2>1, <2>2 DEF Kept
<1>8. catches[1] \in Elements(catches)
      /\ (Len(catches) = 2 => catches[2] \in Elements(catches))
  BY ClausesFacts
<1> QED
  BY <1>4, <1>5, <1>6, <1>7, <1>8

LEMMA UnionTyped ==
    ASSUME NEW sets, NEW elements, \A s \in sets : s \in SUBSET elements
    PROVE  UNION sets \in SUBSET elements
OBVIOUS

LEMMA TryCatchFields ==
    ASSUME NEW body \in Statements, NEW catches, IsClauses(catches)
    PROVE  LET r == TryCatch(body, catches)
               kept == Kept(body, catches)
           IN
           /\ r \in Statements
           /\ r.exits = TryCatchExits(body.exits, kept)
           /\ r.throws <=> \/ "throw" \in Uncaught(body.exits, kept) /\ body.throws
                           \/ \E c \in kept : c.handler.throws
           /\ r.comeFrom <=> body.comeFrom \/ \E c \in Elements(catches) : c.handler.comeFrom
           /\ r.messages = body.messages \cup UNION {c.handler.messages : c \in kept}
           /\ r.facts =
                  body.facts \cup UNION {h.facts : h \in {c.handler : c \in Elements(catches)}}
           /\ \A w \in body.jumps : w \in r.jumps
           /\ \A c \in Elements(catches) : \A w \in c.handler.jumps : w \in r.jumps
           /\ r.gaps = {} =>
                  /\ body.gaps = {} /\ \A c \in Elements(catches) : c.handler.gaps = {}
                  /\ ~("throwable" \in body.from["top"] /\ \E c \in kept : c.type = "Exception")
           /\ \A e \in Entries : \A w \in r.from[e] :
                  \/ e = "top" /\ w \in TryCatchWays(body.from["top"], catches)
                  \/ e # "top" /\ \E c \in Elements(catches) : w \in c.handler.from[e]
<1> DEFINE r == TryCatch(body, catches)
           kept == Kept(body, catches)
           handlers == {c.handler : c \in Elements(catches)}
           x == TryCatchExits(body.exits, kept)
           mayThrow == \/ "throw" \in Uncaught(body.exits, kept) /\ body.throws
                       \/ \E c \in kept : c.handler.throws
           come == body.comeFrom \/ \E h \in handlers : h.comeFrom
           lab == \E h \in handlers : h.label
           code == kept # {} \/ body.hasCode
           k == body.jumps \cup UNION {h.jumps : h \in handlers}
           m == body.messages \cup UNION {c.handler.messages : c \in kept}
           n == body.facts \cup UNION {h.facts : h \in handlers}
           g == If("throwable" \in body.from.top /\ \E c \in kept : c.type = "Exception",
                   {"Throwable and catch (Exception)"})
           o == UNION {h.gaps : h \in handlers}
           u == body.gaps \cup g \cup o
           f == [e \in Entries |-> IF e = "top" THEN TryCatchWays(body.from.top, catches)
                                   ELSE UNION {h.from[e] : h \in handlers}]
<1>1. /\ \A h \in handlers : h \in Statements
      /\ kept \subseteq Elements(catches)
      /\ \A c \in Elements(catches) : c.handler \in Statements
      /\ catches[1] \in Elements(catches)
      /\ Len(catches) = 2 => catches[2] \in Elements(catches)
      /\ Len(catches) \in {1, 2}
  BY ClausesFacts DEF Kept, IsClauses
<1>2. \A h \in handlers : /\ h.exits \in SUBSET BE /\ h.jumps \in SUBSET Ways
                          /\ h.messages \in SUBSET Messages /\ h.facts \in SUBSET Messages
                          /\ h.gaps \in SUBSET Gaps
                          /\ \A e \in Entries : h.from[e] \in SUBSET Ways
  BY <1>1 DEF Statements
<1>3. x \in SUBSET BE /\ m \in SUBSET Messages
  <2>1. \A c \in kept : c.handler.exits \in SUBSET BE /\ c.handler.messages \in SUBSET Messages
    BY <1>1, <1>2
  <2>2. UNION {c.handler.exits : c \in kept} \in SUBSET BE
    BY <2>1, UnionTyped
  <2>3. UNION {c.handler.messages : c \in kept} \in SUBSET Messages
    BY <2>1, UnionTyped
  <2>4. Uncaught(body.exits, kept) \in SUBSET BE
    BY DEF Uncaught, Statements
  <2>5. body.messages \in SUBSET Messages
    BY DEF Statements
  <2> HIDE DEF kept
  <2> QED
    BY <2>2, <2>3, <2>4, <2>5 DEF TryCatchExits
<1>4. k \in SUBSET Ways /\ n \in SUBSET Messages
  <2>1. UNION {h.jumps : h \in handlers} \in SUBSET Ways
    BY <1>2, UnionTyped
  <2>2. UNION {h.facts : h \in handlers} \in SUBSET Messages
    BY <1>2, UnionTyped
  <2>3. body.jumps \in SUBSET Ways /\ body.facts \in SUBSET Messages
    BY DEF Statements
  <2> HIDE DEF handlers
  <2> QED
    BY <2>1, <2>2, <2>3
<1>5. u \in SUBSET Gaps
  <2>1. g \in SUBSET Gaps
    BY DEF If, Gaps
  <2>2. o \in SUBSET Gaps
    BY <1>2, UnionTyped
  <2>3. body.gaps \in SUBSET Gaps
    BY DEF Statements
  <2> HIDE DEF o, g
  <2> QED
    BY <2>1, <2>2, <2>3
<1>6. ASSUME NEW w \in TryCatchWays(body.from.top, catches)
      PROVE  w \in Ways
  <2>1. \/ w \in body.from.top \/ w \in catches[1].handler.from.top
        \/ Len(catches) = 2 /\ w \in catches[2].handler.from.top
    BY <1>1 DEF TryCatchWays, If
  <2> QED
    BY <1>1, <2>1, FromFacts DEF Entries
<1>7. f \in [Entries -> SUBSET Ways]
  <2>1. ASSUME NEW e \in Entries PROVE f[e] \in SUBSET Ways
    BY <1>2, <1>6
  <2> QED
    BY <2>1
<1>8. ASSUME NEW t \in BOOLEAN, t = mayThrow, NEW c \in BOOLEAN, c = come,
             NEW l \in BOOLEAN, l = lab, NEW h \in BOOLEAN, h = code
      PROVE  r = [body EXCEPT !.exits = x, !.throws = t, !.comeFrom = c, !.label = l,
                              !.hasCode = h, !.last = "other", !.isCase = FALSE, !.jumps = k,
                              !.messages = m, !.facts = n, !.gaps = u, !.from = f]
  BY <1>8 DEF TryCatch, Statements
<1>9. \A e \in Entries : \A w \in f[e] :
         \/ e = "top" /\ w \in TryCatchWays(body.from["top"], catches)
         \/ e # "top" /\ \E c \in Elements(catches) : w \in c.handler.from[e]
  OBVIOUS
<1>10. u = {} => /\ body.gaps = {} /\ \A c \in Elements(catches) : c.handler.gaps = {}
                 /\ ~("throwable" \in body.from["top"] /\ \E c \in kept : c.type = "Exception")
  <2>1. \A c \in Elements(catches) : c.handler \in handlers
    OBVIOUS
  <2>2. \A h \in handlers : h.gaps \subseteq o
    OBVIOUS
  <2>3. g = {} => ~("throwable" \in body.from["top"] /\ \E c \in kept : c.type = "Exception")
    BY DEF If
  <2> HIDE DEF handlers, o, g, kept
  <2>4. o = {} => \A h \in handlers : h.gaps = {}
    BY <2>2
  <2>5. u = {} => body.gaps = {} /\ o = {} /\ g = {}
    OBVIOUS
  <2> QED
    BY <2>1, <2>3, <2>4, <2>5
<1>11. /\ \A w \in body.jumps : w \in k
       /\ \A c \in Elements(catches) : \A w \in c.handler.jumps : w \in k
  OBVIOUS
<1>12. come <=> body.comeFrom \/ \E c \in Elements(catches) : c.handler.comeFrom
  OBVIOUS
<1> HIDE DEF r, x, mayThrow, come, lab, code, k, m, n, u, f
<1>13. ASSUME NEW t \in BOOLEAN, NEW c \in BOOLEAN, NEW l \in BOOLEAN, NEW h \in BOOLEAN,
              r = [body EXCEPT !.exits = x, !.throws = t, !.comeFrom = c, !.label = l,
                               !.hasCode = h, !.last = "other", !.isCase = FALSE, !.jumps = k,
                               !.messages = m, !.facts = n, !.gaps = u, !.from = f]
       PROVE  /\ r \in Statements /\ r.exits = x /\ r.throws = t /\ r.comeFrom = c
              /\ r.jumps = k /\ r.gaps = u /\ r.from = f /\ r.messages = m /\ r.facts = n
  <2> DEFINE v == [body EXCEPT !.exits = x, !.throws = t, !.comeFrom = c, !.label = l,
                               !.hasCode = h, !.last = "other", !.isCase = FALSE, !.jumps = k,
                               !.messages = m, !.facts = n, !.gaps = u, !.from = f]
  <2>1. v \in Statements
    BY <1>3, <1>4, <1>5, <1>7 DEF Statements
  <2>2. /\ v.exits = x /\ v.throws = t /\ v.comeFrom = c
        /\ v.jumps = k /\ v.gaps = u /\ v.from = f /\ v.messages = m /\ v.facts = n
    BY DEF Statements
  <2>3. r = v
    BY <1>13
  <2> QED
    BY <2>1, <2>2, <2>3
<1>14. /\ r \in Statements /\ r.exits = x /\ (r.throws <=> mayThrow) /\ (r.comeFrom <=> come)
       /\ r.jumps = k /\ r.gaps = u /\ r.from = f /\ r.messages = m /\ r.facts = n
  BY <1>8, <1>13 DEF mayThrow, come, lab, code
<1> QED
  BY <1>9, <1>10, <1>11, <1>12, <1>14 DEF r, x, mayThrow, m, n

LEMMA TryCatchKnown ==
    ASSUME NEW body, Known(body), NEW catches, IsClauses(catches)
    PROVE  Known(TryCatch(body, catches))
<1> DEFINE r == TryCatch(body, catches)
           kept == Kept(body, catches)
<1>1. body \in Statements
  BY DEF Known
<1>2. /\ r \in Statements
      /\ r.exits = TryCatchExits(body.exits, kept)
      /\ r.throws <=> \/ "throw" \in Uncaught(body.exits, kept) /\ body.throws
                      \/ \E c \in kept : c.handler.throws
      /\ r.comeFrom <=> body.comeFrom \/ \E c \in Elements(catches) : c.handler.comeFrom
      /\ \A w \in body.jumps : w \in r.jumps
      /\ \A c \in Elements(catches) : \A w \in c.handler.jumps : w \in r.jumps
      /\ r.gaps = {} =>
             /\ body.gaps = {} /\ \A c \in Elements(catches) : c.handler.gaps = {}
             /\ ~("throwable" \in body.from["top"] /\ \E c \in kept : c.type = "Exception")
  BY <1>1, TryCatchFields
<1>3. ASSUME NEW e \in Entries, NEW w \in r.from[e]
      PROVE  \/ e = "top" /\ w \in TryCatchWays(body.from["top"], catches)
             \/ e # "top" /\ \E c \in Elements(catches) : w \in c.handler.from[e]
  BY <1>1, TryCatchFields
<1> HIDE DEF r
<1>4. "top" \in Entries
  BY DEF Entries
<1>5. kept \subseteq Elements(catches)
  BY DEF Kept
<1>6. ASSUME NEW e \in Entries, NEW c \in Elements(catches), NEW w \in c.handler.from[e],
             r.gaps = {} => c \in kept, ~r.comeFrom => e = "top"
      PROVE  Fits(r, e, w)
  <2>1. Fits(c.handler, e, w)
    BY Known1, ClausesFacts
  <2> QED
    BY <1>2, <1>6, <2>1 DEF Fits, TryCatchExits
<1>7. ASSUME NEW e \in Entries, NEW w \in r.from[e]
      PROVE  Fits(r, e, w)
  <2>1. CASE e = "top" /\ w \in TryCatchWays(body.from["top"], catches)
    <3>1. \/ w \in body.from["top"]
          \/ \E c \in Elements(catches) : w \in c.handler.from["top"]
      <4>1. \/ w \in body.from["top"] \/ w \in catches[1].handler.from["top"]
            \/ Len(catches) = 2 /\ w \in catches[2].handler.from["top"]
        BY <2>1 DEF TryCatchWays, If, IsClauses
      <4> QED
        BY <4>1, ClausesFacts
    <3>2. ASSUME r.gaps = {}
          PROVE  FlagOf(w) \in r.exits /\ (w = "throw" => r.throws)
      <4>1. \/ /\ w \in body.from["top"]
               /\ FlagOf(w) \in Uncaught(body.exits, kept)
            \/ \E c \in kept : w \in c.handler.from["top"]
        BY <1>2, <2>1, <3>2, TryCatchOut
      <4>2. CASE w \in body.from["top"] /\ FlagOf(w) \in Uncaught(body.exits, kept)
        <5>1. Fits(body, "top", w) /\ w \in Ways
          BY <1>4, <4>2, Known1
        <5>2. w = "throw" => FlagOf(w) = "throw"
          BY <5>1, OtherFlags
        <5> QED
          BY <1>2, <3>2, <4>2, <5>1, <5>2 DEF Fits, TryCatchExits
      <4>3. ASSUME NEW c \in kept, w \in c.handler.from["top"]
            PROVE  FlagOf(w) \in r.exits /\ (w = "throw" => r.throws)
        <5>1. Fits(c.handler, "top", w)
          BY <1>4, <1>5, <4>3, Known1, ClausesFacts
        <5> QED
          BY <1>2, <1>5, <3>2, <5>1 DEF Fits, TryCatchExits
      <4> QED
        BY <4>1, <4>2, <4>3
    <3>3. w \in LabelJumps => w \in r.jumps
      <4>1. CASE w \in body.from["top"]
        BY <1>2, <1>4, <4>1, Known1 DEF Fits
      <4>2. ASSUME NEW c \in Elements(catches), w \in c.handler.from["top"]
            PROVE  w \in LabelJumps => w \in r.jumps
        BY <1>2, <1>4, <4>2, Known1, ClausesFacts DEF Fits
      <4> QED
        BY <3>1, <4>1, <4>2
    <3> QED
      BY <2>1, <3>2, <3>3 DEF Fits
  <2>2. ASSUME e # "top", NEW c \in Elements(catches), w \in c.handler.from[e]
        PROVE  Fits(r, e, w)
    <3>1. Fits(c.handler, e, w)
      BY <2>2, Known1, ClausesFacts
    <3>2. c.handler.comeFrom
      BY <2>2, <3>1 DEF Fits
    <3>3. c \in kept /\ r.comeFrom
      BY <3>2, <1>2 DEF Kept
    <3> QED
      BY <1>6, <2>2, <3>3
  <2> QED
    BY <1>3, <2>1, <2>2
<1>8. Known(r)
  BY <1>2, <1>7, KnownAll
<1> QED
  BY <1>8 DEF r

-----------------------------------------------------------------------------
(* The construction                                                        *)

\* The statement that is built and the one that has been put aside are known.
IInv ==
    /\ sort \in Sorts /\ size \in 1..sort.maxSize
    /\ Known(now)
    /\ saved = <<>> \/ \E s \in Statements : saved = <<s>> /\ Known(s)

LEMMA ConditionsTyped == SortConditions \subseteq Conditions
BY DEF SortConditions, Conditions, If

LEMMA SizeFacts ==
    ASSUME sort \in Sorts, size \in 1..sort.maxSize
    PROVE  /\ sort.maxSize \in Nat
           /\ size < sort.maxSize => size + 1 \in 1..sort.maxSize
BY SortAssumption DEF IsSort

LEMMA InitIInv == Init => IInv
<1> SUFFICES ASSUME Init PROVE IInv
  OBVIOUS
<1>1. PICK n \in DOMAIN Simples : now = Simples[n]
  BY DEF Init
<1>2. Known(now)
  BY <1>1, SimplesKnown
<1>3. sort \in Sorts /\ size \in 1..sort.maxSize /\ saved = <<>>
  BY SortAssumption DEF Init, IsSort
<1> QED
  BY <1>2, <1>3 DEF IInv

\* A construct of one statement.
LEMMA MakesStep ==
    ASSUME IInv, NEW kind, NEW s, Makes(kind, s), Known(s)
    PROVE  IInv'
<1>1. /\ sort' = sort /\ saved' = saved /\ now' = s /\ size' = size + 1
      /\ size < sort.maxSize
  BY DEF Makes
<1>2. size' \in 1..sort'.maxSize
  BY <1>1, SizeFacts DEF IInv
<1> HIDE DEF Known
<1> QED
  BY <1>1, <1>2 DEF IInv

\* A construct of two statements, in either order.
LEMMA TwoStep ==
    ASSUME IInv, NEW kind, MakesOfTwo(kind), Known(now')
    PROVE  IInv'
<1> HIDE DEF Known
<1> QED
  BY DEF IInv, MakesOfTwo

LEMMA PairsKnown ==
    ASSUME IInv, saved # <<>>, NEW p \in Pairs
    PROVE  Known(p[1]) /\ Known(p[2])
<1>1. PICK s \in Statements : saved = <<s>> /\ Known(s)
  BY DEF IInv
<1>2. saved[1] = s /\ (p = <<s, now>> \/ p = <<now, s>>)
  BY <1>1 DEF Pairs
<1>3. Known(now)
  BY DEF IInv
<1> HIDE DEF Known
<1> QED
  BY <1>1, <1>2, <1>3

LEMMA BeginStep == IInv /\ Begin => IInv'
<1> SUFFICES ASSUME IInv, Begin PROVE IInv'
  OBVIOUS
<1>1. PICK n \in DOMAIN Simples : now' = Simples[n]
  BY DEF Begin, Starts
<1>2. Known(now')
  BY <1>1, SimplesKnown
<1>3. now \in Statements
  BY DEF IInv, Known
<1>4. sort' = sort /\ size' = size + 1 /\ size < sort.maxSize /\ saved' = <<now>>
  BY DEF Begin
<1>5. size' \in 1..sort'.maxSize
  BY <1>4, SizeFacts DEF IInv
<1> HIDE DEF Known
<1> QED
  BY <1>2, <1>3, <1>4, <1>5 DEF IInv

LEMMA ClausesKnown ==
    ASSUME NEW handler, Known(handler), NEW catches \in Clauses(handler)
    PROVE  IsClauses(catches)
<1> DEFINE clause == [type : CatchTypes, handler : Statements]
<1>1. handler \in Statements
  BY DEF Known
<1>2. Known(Empty) /\ Empty \in Statements
  BY SimplesKnown DEF Simples, Known
<1>3. \/ \E t \in CatchTypes : catches = <<Catch(t, handler)>>
      \/ \E t, u \in CatchTypes, h, g \in {handler, Empty} :
            catches = <<Catch(t, h), Catch(u, g)>>
  BY DEF Clauses
<1>4. ASSUME NEW t \in CatchTypes, NEW h \in {handler, Empty}
      PROVE  Catch(t, h) \in clause /\ Known(Catch(t, h).handler)
  BY <1>1, <1>2 DEF Catch
<1> HIDE DEF clause, Known, Empty, Catch
<1>5. CASE \E t \in CatchTypes : catches = <<Catch(t, handler)>>
  <2>1. PICK t \in CatchTypes : catches = <<Catch(t, handler)>>
    BY <1>5
  <2>2. catches \in Seq(clause) /\ Len(catches) = 1 /\ Elements(catches) = {Catch(t, handler)}
    BY <2>1, <1>4 DEF Elements
  <2> QED
    BY <2>2, <1>4 DEF IsClauses, clause
<1>6. CASE \E t, u \in CatchTypes, h, g \in {handler, Empty} :
              catches = <<Catch(t, h), Catch(u, g)>>
  <2>1. PICK t \in CatchTypes, u \in CatchTypes, h \in {handler, Empty}, g \in {handler, Empty} :
           catches = <<Catch(t, h), Catch(u, g)>>
    BY <1>6
  <2>2. catches \in Seq(clause) /\ Len(catches) = 2
        /\ Elements(catches) = {Catch(t, h), Catch(u, g)}
    BY <2>1, <1>4 DEF Elements
  <2> QED
    BY <2>2, <1>4 DEF IsClauses, clause
<1> QED
  BY <1>3, <1>5, <1>6

LEMMA NextStep == IInv /\ [Next]_vars => IInv'
<1> SUFFICES ASSUME IInv, [Next]_vars PROVE IInv'
  OBVIOUS
<1>b. Known(now)
  BY DEF IInv
<1>a. ASSUME NEW kind, MakesOfTwo(kind), NEW p \in Pairs
      PROVE  Known(p[1]) /\ Known(p[2])
  BY <1>a, PairsKnown DEF MakesOfTwo
<1> HIDE DEF Known, IInv
<1>1. CASE Begin
  BY <1>1, BeginStep
<1>2. CASE CompoundStatement
  BY <1>2, <1>a, CompoundKnown, TwoStep DEF CompoundStatement
<1>3. CASE ScopeStatement
  BY <1>b, <1>3, BlockKnown, MakesStep DEF ScopeStatement
<1>4. CASE IfStatement
  BY <1>4, <1>a, ConditionsTyped, IfElseKnown, TwoStep DEF IfStatement
<1>5. CASE DoStatement
  BY <1>b, <1>5, ConditionsTyped, DoKnown, MakesStep DEF DoStatement
<1>6. CASE ForStatement
  BY <1>b, <1>6, ConditionsTyped, ForKnown, MakesStep DEF ForStatement
<1>7. CASE UnrolledLoopStatement
  BY <1>7, <1>a, UnrolledKnown, TwoStep DEF UnrolledLoopStatement
<1>8. CASE LabelStatement
  BY <1>b, <1>8, LabelKnown, MakesStep DEF LabelStatement
<1>9. CASE CaseStatement
  BY <1>b, <1>9, CaseKnown, MakesStep DEF CaseStatement
<1>10. CASE SwitchStatement
  BY <1>b, <1>10, ConditionsTyped, SwitchKnown, MakesStep DEF SwitchStatement
<1>11. CASE WithStatement
  BY <1>b, <1>11, ConditionsTyped, WithKnown, MakesStep DEF WithStatement
<1>12. CASE TryCatchStatement
  <2>1. PICK p \in Pairs : \E catches \in Clauses(p[2]) : now' = TryCatch(p[1], catches)
    BY <1>12 DEF TryCatchStatement
  <2>2. MakesOfTwo("try")
    BY <1>12 DEF TryCatchStatement
  <2>3. PICK catches \in Clauses(p[2]) : now' = TryCatch(p[1], catches)
    BY <2>1
  <2>4. Known(p[1]) /\ IsClauses(catches)
    BY <1>a, <2>2, ClausesKnown
  <2>5. Known(now')
    BY <2>3, <2>4, TryCatchKnown
  <2> QED
    BY <2>2, <2>5, TwoStep
<1>13. CASE ScopeFailure
  BY <1>13, <1>a, FailureKnown, TwoStep DEF ScopeFailure
<1>14. CASE TryFinallyStatement
  BY <1>14, <1>a, TryFinallyKnown, TwoStep DEF TryFinallyStatement
<1>15. CASE UNCHANGED vars
  BY <1>15 DEF vars, IInv, Known, Entered, Jumps, Honest, ThrowsNothing
<1> QED
  BY <1>1, <1>2, <1>3, <1>4, <1>5, <1>6, <1>7, <1>8, <1>9, <1>10, <1>11, <1>12, <1>13, <1>14,
     <1>15 DEF Next

LEMMA Invariance == Spec => []IInv
BY InitIInv, NextStep, PTL DEF Spec

\* Every statement, and the one put aside, is a record of the right kind.
THEOREM TypeCorrect == Spec => []TypeOK
<1>1. IInv => TypeOK
  <2> SUFFICES ASSUME IInv PROVE TypeOK
    OBVIOUS
  <2>1. now \in Statements /\ sort \in Sorts /\ size \in 1..sort.maxSize
    BY DEF IInv, Known
  <2>2. saved \in Seq(Statements) /\ Len(saved) <= 1
    <3> HIDE DEF Known
    <3>1. saved = <<>> \/ \E s \in Statements : saved = <<s>>
      BY DEF IInv
    <3>2. ASSUME NEW set, saved = <<>> \/ \E s \in set : saved = <<s>>
          PROVE  saved \in Seq(set) /\ Len(saved) <= 1
      <4>1. CASE saved = <<>>
        BY <4>1
      <4>2. ASSUME NEW s \in set, saved = <<s>>
            PROVE  saved \in Seq(set) /\ Len(saved) <= 1
        BY <4>2
      <4> QED
        BY <3>2, <4>1, <4>2
    <3> QED
      BY <3>1, <3>2
  <2> QED
    BY <2>1, <2>2 DEF TypeOK
<1> QED
  BY <1>1, Invariance, PTL

\* However large a statement is, and however it is entered, every way out of it
\* is in the flags that blockExit() computes, unless it holds a gap.
THEOREM FlagsCover == Spec => []Covered
<1>1. IInv => Covered
  BY DEF IInv, Known, Covered
<1> QED
  BY <1>1, Invariance, PTL

\* A statement that blockExit() accepts as nothrow lets no Exception out.
THEOREM NothrowIsHonoured == Spec => []NothrowHonoured
<1>1. IInv => NothrowHonoured
  BY DEF IInv, Known, NothrowHonoured
<1> QED
  BY <1>1, Invariance, PTL

-----------------------------------------------------------------------------
(* Justified: what is said of unreachable code, and of reachable ends      *)

\* What is said of unreachable code is true.
Clear(s) == s.gaps = {} /\ "not reachable" \in s.messages => "not reachable" \in s.facts

\* What goes on as blockExit() sees it does go on, and nothing leads into it.
Onward == {"fallthru", "break", "continue"}
Tight(s) ==
    /\ ~s.comeFrom
    /\ "goto" \notin s.exits
    /\ \A w \in Onward : w \in s.exits => w \in s.from["top"]

Fine(s) == Clear(s) /\ (Without(Guessed) => Tight(s))

\* A simple statement says nothing.
LEMMA SimpleFine ==
    ASSUME NEW flags, NEW ways, NEW jumps
    PROVE  /\ Clear(Simple(flags, ways, jumps))
           /\ "goto" \notin flags /\ (\A w \in Onward : w \in flags => w \in ways)
                => Tight(Simple(flags, ways, jumps))
<1> DEFINE s == Simple(flags, ways, jumps)
<1>1. /\ s.exits = flags /\ s.messages = {} /\ s.comeFrom = FALSE /\ s.from = Only(ways)
  BY DEF Simple
<1>2. s.from["top"] = ways
  BY <1>1 DEF Only, Entries
<1> HIDE DEF s
<1>3. /\ Clear(s)
      /\ "goto" \notin flags /\ (\A w \in Onward : w \in flags => w \in ways) => Tight(s)
  BY <1>1, <1>2 DEF Clear, Tight
<1> QED
  BY <1>3 DEF s

LEMMA SimplesFine ==
    ASSUME NEW n \in DOMAIN Simples
    PROVE  /\ Clear(Simples[n])
           /\ n \notin Guessed => Tight(Simples[n])
<1> USE SimpleFine
<1> HIDE DEF Clear, Tight, Simple
<1>1. Clear(Empty) /\ Tight(Empty)
  <2> DEFINE s == Simple({"fallthru"}, {"fallthru"}, {})
  <2>1. Clear(s) /\ Tight(s)
    BY DEF Onward
  <2>2. Empty = [s EXCEPT !.hasCode = FALSE]
    BY DEF Empty
  <2>3. /\ Empty.exits = s.exits /\ Empty.messages = s.messages /\ Empty.facts = s.facts
        /\ Empty.gaps = s.gaps /\ Empty.comeFrom = s.comeFrom /\ Empty.from = s.from
    BY <2>2 DEF Simple
  <2> HIDE DEF s
  <2> QED
    BY <2>1, <2>3 DEF Clear, Tight
<1>2. DOMAIN Simples =
        {"empty", "nothrow", "call", "noreturn", "halt", "return", "returnCall",
         "throwException", "throwThrowable", "throwError", "goto", "gotoCase",
         "break", "continue", "breakLabel", "continueLabel"}
  BY DEF Simples
<1>3. /\ Clear(Simples.empty) /\ Tight(Simples.empty)
      /\ Clear(Simples.nothrow) /\ Tight(Simples.nothrow)
      /\ Clear(Simples.call) /\ Tight(Simples.call)
      /\ Clear(Simples.noreturn) /\ Tight(Simples.noreturn)
  BY <1>1 DEF Simples, Onward
<1>4. /\ Clear(Simples.halt) /\ Tight(Simples.halt)
      /\ Clear(Simples.return) /\ Tight(Simples.return)
      /\ Clear(Simples.returnCall) /\ Tight(Simples.returnCall)
  BY DEF Simples, Onward
<1>5. /\ Clear(Simples.throwException) /\ Tight(Simples.throwException)
      /\ Clear(Simples.throwThrowable) /\ Tight(Simples.throwThrowable)
      /\ Clear(Simples.throwError) /\ Tight(Simples.throwError)
  BY DEF Simples, Onward
<1>6. \A w : Clear(Jump(w))
  BY DEF Jump
<1>7. ASSUME NEW w \in {"break", "continue"}
      PROVE  Tight(Jump(w))
  <2>1. FlagOf(w) = w
    BY DEF FlagOf, Gotos
  <2> QED
    BY <2>1 DEF Jump, Onward
<1>8. /\ Clear(Simples.break) /\ Tight(Simples.break)
      /\ Clear(Simples.continue) /\ Tight(Simples.continue)
      /\ Clear(Simples.goto) /\ Clear(Simples.gotoCase)
      /\ Clear(Simples.breakLabel) /\ Clear(Simples.continueLabel)
  BY <1>6, <1>7 DEF Simples
<1> QED
  BY <1>2, <1>3, <1>4, <1>5, <1>8 DEF Guessed

\* A construct adds its own messages to those of its parts.
LEMMA ClearFromOne ==
    ASSUME NEW s, Clear(s), NEW r,
           r.gaps = {} => s.gaps = {},
           r.messages \subseteq s.messages, s.facts \subseteq r.facts
    PROVE  Clear(r)
BY DEF Clear

LEMMA ClearFromTwo ==
    ASSUME NEW a, NEW b, Clear(a), Clear(b), NEW r,
           r.gaps = {} => a.gaps = {} /\ b.gaps = {},
           r.messages \subseteq a.messages \cup b.messages,
           a.facts \cup b.facts \subseteq r.facts
    PROVE  Clear(r)
BY DEF Clear

\* Control never leaves a statement by its end if BEfallthru is not in its flags.
LEMMA CompoundClear ==
    ASSUME NEW a, NEW b, Known(a), Known(b), Clear(a), Clear(b)
    PROVE  Clear(Compound(a, b))
<1> DEFINE r == Compound(a, b)
           j == Joined(a, b)
<1>1. a \in Statements /\ b \in Statements
  BY DEF Known
<1>2. j \in Statements
  BY <1>1, JoinedTyped
<1>3. /\ r.messages = j.messages \cup CompoundMessages(a, b)
      /\ r.facts = j.facts \cup CompoundFacts(a, b)
  <2> HIDE DEF j
  <2>1. \E x, h, l, f : r = [j EXCEPT !.exits = x, !.hasCode = h, !.last = l, !.isCase = FALSE,
                           !.messages = @ \cup CompoundMessages(a, b),
                           !.facts = @ \cup CompoundFacts(a, b), !.from = f]
    BY DEF Compound, j
  <2> HIDE DEF r
  <2> QED
    BY <1>2, <2>1 DEF Statements
<1>4. r.gaps = a.gaps \cup b.gaps
  BY <1>1, CompoundFields
<1>5. j.messages = a.messages \cup b.messages /\ j.facts = a.facts \cup b.facts
  BY <1>1, JoinedFacts
<1> HIDE DEF r, j
<1>6. SUFFICES ASSUME r.gaps = {}, "not reachable" \in r.messages
               PROVE  "not reachable" \in r.facts
  BY DEF Clear, r
<1>7. a.gaps = {} /\ b.gaps = {}
  BY <1>4, <1>6
<1>8. CASE "not reachable" \in a.messages \cup b.messages
  BY <1>3, <1>5, <1>7, <1>8 DEF Clear
<1>9. CASE "not reachable" \in CompoundMessages(a, b)
  <2>1. Skips(a, b)
    BY <1>9 DEF CompoundMessages, If
  <2>2. ASSUME NEW e \in Entries PROVE "fallthru" \notin a.from[e]
    <3>1. FlagOf("fallthru") = "fallthru"
      BY DEF FlagOf, Gotos
    <3> QED
      BY <1>7, <2>1, <3>1 DEF Known, Honest, Covers, Skips
  <2> QED
    BY <1>3, <2>1, <2>2 DEF CompoundFacts, GoesOn, Skips, If
<1> QED
  BY <1>3, <1>5, <1>6, <1>8, <1>9

\* What else is kept of the parts: messages and facts go up as they are.
LEMMA BlockFine ==
    ASSUME NEW s, Known(s)
    PROVE  /\ Clear(s) => Clear(Block(s))
           /\ Tight(s) => Tight(Block(s))
<1> DEFINE r == Block(s)
<1>1. s \in Statements
  BY DEF Known
<1>2. /\ r.exits = s.exits /\ r.comeFrom = s.comeFrom /\ r.from = s.from
      /\ r.gaps = s.gaps /\ r.messages = s.messages /\ r.facts = s.facts
  BY <1>1 DEF Block, Statements
<1> HIDE DEF r
<1>3. (Clear(s) => Clear(r)) /\ (Tight(s) => Tight(r))
  BY <1>2 DEF Clear, Tight
<1> QED
  BY <1>3 DEF r

LEMMA CompoundTight ==
    ASSUME NEW a, NEW b, Known(a), Known(b), Tight(a), Tight(b)
    PROVE  Tight(Compound(a, b))
<1> DEFINE r == Compound(a, b)
<1>1. a \in Statements /\ b \in Statements
  BY DEF Known
<1>2. /\ r.exits = CompoundExits(a, b)
      /\ r.comeFrom <=> a.comeFrom \/ b.comeFrom
      /\ \A e \in Entries : r.from[e] = Then(a.from[e], b.from.top) \cup If(e # "top", b.from[e])
  BY <1>1, CompoundFields
<1> HIDE DEF r
<1>3. r.from["top"] = Then(a.from["top"], b.from["top"])
  BY <1>2 DEF Entries, If
<1>4. ASSUME NEW w \in Onward, w \in r.exits PROVE w \in r.from["top"]
  <2>1. CASE Skips(a, b)
    <3>1. w \in a.exits /\ "fallthru" \notin a.exits /\ w # "fallthru"
      BY <1>2, <1>4, <2>1 DEF CompoundExits, Skips
    <3>2. w \in a.from["top"]
      BY <3>1 DEF Tight
    <3> QED
      BY <1>3, <3>1, <3>2 DEF Then
  <2>2. CASE ~Skips(a, b)
    <3>1. "fallthru" \in a.exits
      BY <2>2 DEF Skips, Tight
    <3>2. "fallthru" \in a.from["top"]
      BY <3>1 DEF Tight, Onward
    <3>3. (w \in a.exits /\ w # "fallthru") \/ w \in b.exits
      BY <1>2, <1>4, <2>2 DEF CompoundExits
    <3>4. (w \in a.from["top"] /\ w # "fallthru") \/ w \in b.from["top"]
      BY <3>3 DEF Tight
    <3> QED
      BY <1>3, <3>2, <3>4 DEF Then
  <2> QED
    BY <2>1, <2>2
<1>5. "goto" \notin r.exits
  BY <1>2 DEF CompoundExits, Tight
<1>6. ~r.comeFrom
  BY <1>2 DEF Tight
<1>7. Tight(r)
  BY <1>4, <1>5, <1>6 DEF Tight
<1> QED
  BY <1>7 DEF r

\* The fields of a construct that IfElse leaves as they are joined.
LEMMA IfElseFine ==
    ASSUME NEW a, NEW b, Known(a), Known(b), NEW cond \in Conditions
    PROVE  /\ Clear(a) /\ Clear(b) => Clear(IfElse(cond, a, b))
           /\ Tight(a) /\ Tight(b) => Tight(IfElse(cond, a, b))
<1> DEFINE j == Joined(a, b)
           x == Throws(cond) \cup Branches(cond, a.exits, b.exits)
           m == Branches(cond, a.messages, b.messages)
           g == If((~CanBe(cond, "true") /\ a.comeFrom)
                     \/ (~CanBe(cond, "false") /\ b.comeFrom),
                   {"label where a constant condition does not lead"})
           f == [e \in Entries |->
                   IF e = "top" THEN Throws(cond) \cup Branches(cond, a.from.top, b.from.top)
                   ELSE a.from[e] \cup b.from[e]]
           r == IfElse(cond, a, b)
<1>1. a \in Statements /\ b \in Statements
  BY DEF Known
<1>2. j \in Statements
  BY <1>1, JoinedTyped
<1>3. /\ r.exits = x /\ r.messages = m /\ r.from = f /\ r.gaps = j.gaps \cup g
      /\ r.facts = j.facts /\ r.comeFrom = j.comeFrom
  <2>1. \E t : r = [j EXCEPT !.exits = x, !.throws = t, !.messages = m, !.gaps = @ \cup g, !.from = f]
    BY DEF IfElse
  <2> HIDE DEF r, j, x, m, g, f
  <2> QED
    BY <1>2, <2>1 DEF Statements
<1>4. /\ j.facts = a.facts \cup b.facts /\ j.gaps = a.gaps \cup b.gaps
      /\ j.comeFrom <=> a.comeFrom \/ b.comeFrom
  BY <1>1, JoinedFacts
<1>5. m \subseteq a.messages \cup b.messages
  BY DEF Branches, If
<1> HIDE DEF j, g
<1>6. Clear(a) /\ Clear(b) => Clear(r)
  <2> HIDE DEF r, m
  <2>1. /\ r.gaps = {} => a.gaps = {} /\ b.gaps = {}
        /\ r.messages \subseteq a.messages \cup b.messages
        /\ a.facts \cup b.facts \subseteq r.facts
    BY <1>3, <1>4, <1>5
  <2> QED
    BY <2>1, ClearFromTwo
<1>7. ASSUME Tight(a), Tight(b) PROVE Tight(r)
  <2>1. r.from["top"] = Throws(cond) \cup Branches(cond, a.from["top"], b.from["top"])
    BY <1>3 DEF Entries
  <2>2. \A w \in Throws(cond) : w = "throw"
    BY ThrowsFacts
  <2> HIDE DEF r
  <2>3. ASSUME NEW w \in Onward, w \in r.exits PROVE w \in r.from["top"]
    <3>1. w \in Branches(cond, a.exits, b.exits)
      BY <1>3, <2>2, <2>3 DEF Onward
    <3>2. \/ CanBe(cond, "true") /\ w \in a.exits
          \/ CanBe(cond, "false") /\ w \in b.exits
      BY <3>1 DEF Branches, If
    <3> QED
      BY <1>7, <2>1, <3>2 DEF Branches, If, Tight
  <2>4. "goto" \notin r.exits
    BY <1>3, <1>7, <2>2 DEF Branches, If, Tight
  <2>5. ~r.comeFrom
    BY <1>3, <1>4, <1>7 DEF Tight
  <2> QED
    BY <2>3, <2>4, <2>5 DEF Tight
<1> QED
  BY <1>6, <1>7 DEF r

LEMMA WithFine ==
    ASSUME NEW s, Known(s), NEW cond \in Conditions
    PROVE  /\ Clear(s) => Clear(With(s, cond))
           /\ Tight(s) => Tight(With(s, cond))
<1> DEFINE r == With(s, cond)
<1>1. s \in Statements
  BY DEF Known
<1>2. /\ r.exits = Throws(cond) \cup s.exits /\ r.comeFrom = s.comeFrom
      /\ r.gaps = s.gaps /\ r.messages = s.messages /\ r.facts = s.facts
      /\ r.from["top"] = Throws(cond) \cup s.from["top"]
  <2>1. /\ r.exits = Throws(cond) \cup s.exits /\ r.comeFrom = s.comeFrom
        /\ r.gaps = s.gaps /\ r.messages = s.messages /\ r.facts = s.facts
    BY <1>1 DEF With, Statements
  <2>2. r.from = [s.from EXCEPT !["top"] = Throws(cond) \cup @]
    BY <1>1 DEF With, Statements
  <2>3. s.from \in [Entries -> SUBSET Ways]
    BY <1>1 DEF Statements
  <2> HIDE DEF r
  <2> QED
    BY <2>1, <2>2, <2>3 DEF Entries
<1>3. \A w \in Throws(cond) : w = "throw"
  BY ThrowsFacts
<1> HIDE DEF r
<1>4. (Clear(s) => Clear(r)) /\ (Tight(s) => Tight(r))
  BY <1>2, <1>3 DEF Clear, Tight, Onward
<1> QED
  BY <1>4 DEF r

\* The ways in which a loop that has no label is left by its end.
LEMMA RoundsOut ==
    ASSUME NEW ways, NEW top, NEW cond, NEW step,
           \/ "break" \in ways
           \/ ways \cap {"fallthru", "continue"} # {} /\ CanBe(cond, "false")
           \/ ways \cap {"fallthru", "continue"} # {} /\ CanBe(cond, "true") /\ "break" \in top
    PROVE  "fallthru" \in Rounds(ways, top, cond, step, FALSE)
<1> DEFINE all == ways \cup If(Again(ways, FALSE) /\ CanBe(cond, "true"), top)
<1>1. Own("break", FALSE) = {"break"} /\ Own("continue", FALSE) = {"continue"}
  BY DEF Own, If
<1>2. "break" \in all \/ (all \cap {"fallthru", "continue"} # {} /\ CanBe(cond, "false"))
  BY <1>1 DEF Again, If
<1>3. \/ "fallthru" \in Leaves(all, FALSE)
      \/ Again(all, FALSE) /\ CanBe(cond, "false")
  BY <1>1, <1>2 DEF Leaves, Again, If
<1>4. Rounds(ways, top, cond, step, FALSE) =
        Leaves(all, FALSE)
        \cup If(Again(all, FALSE),
                Throws(cond) \cup Throws(step) \cup If(CanBe(cond, "false"), {"fallthru"}))
  BY DEF Rounds
<1> HIDE DEF all
<1> QED
  BY <1>3, <1>4 DEF If

LEMMA DoTight ==
    ASSUME NEW body, Known(body), Tight(body), NEW cond \in Conditions
    PROVE  Tight(Do(body, cond, FALSE))
<1> DEFINE r == Do(body, cond, FALSE)
<1>1. body \in Statements
  BY DEF Known
<1>2. /\ r.exits = DoExits(body.exits, cond) \cup Breaks(body, FALSE)
      /\ r.comeFrom <=> body.comeFrom
      /\ \A e \in Entries : r.from[e] =
             Rounds(body.from[IF e = "label" /\ FALSE THEN "top" ELSE e],
                    body.from["top"], cond, "unknown", FALSE)
  BY <1>1, DoFields
<1>3. r.from["top"] = Rounds(body.from["top"], body.from["top"], cond, "unknown", FALSE)
  BY <1>2 DEF Entries
<1>4. r.exits = DoExits(body.exits, cond)
  BY <1>2 DEF Breaks, If
<1> HIDE DEF r
<1>5. "goto" \notin r.exits
  BY <1>4, ThrowsFacts DEF DoExits, If, Tight
<1>6. "break" \notin r.exits /\ "continue" \notin r.exits
  BY <1>4 DEF DoExits, If
<1>7. ASSUME "fallthru" \in r.exits PROVE "fallthru" \in r.from["top"]
  <2>1. \/ "break" \in body.exits
        \/ body.exits \cap {"fallthru", "continue"} # {} /\ cond # "true"
    <3>1. CASE body.exits = {"break"}
      BY <3>1
    <3>2. CASE body.exits # {"break"}
      <4>1. "fallthru" \notin Throws(cond)
        BY ThrowsFacts
      <4> QED
        BY <1>4, <1>7, <3>2, <4>1 DEF DoExits, If
    <3> QED
      BY <3>1, <3>2
  <2>2. cond # "true" => CanBe(cond, "false")
    BY DEF CanBe, Conditions
  <2>3. \/ "break" \in body.from["top"]
        \/ body.from["top"] \cap {"fallthru", "continue"} # {} /\ CanBe(cond, "false")
    BY <2>1, <2>2 DEF Tight, Onward
  <2> QED
    BY <1>3, <2>3, RoundsOut
<1>8. Tight(r)
  BY <1>2, <1>5, <1>6, <1>7 DEF Tight, Onward
<1> QED
  BY <1>8 DEF r

LEMMA DoClear ==
    ASSUME NEW body, Known(body), Clear(body), NEW cond \in Conditions, NEW labelled \in BOOLEAN
    PROVE  Clear(Do(body, cond, labelled))
<1> DEFINE r == Do(body, cond, labelled)
           l == Loop(body, labelled)
<1>1. body \in Statements
  BY DEF Known
<1>2. l \in Statements /\ l.messages = body.messages
  BY <1>1, LoopFields
<1>3. l.facts = body.facts
  BY <1>1 DEF Loop, Statements
<1>4. r.messages = l.messages /\ r.facts = l.facts
  <2> HIDE DEF l
  <2>1. \E x, t, g, h, f : r = [l EXCEPT !.exits = x, !.throws = t, !.gaps = @ \cup g \cup h, !.from = f]
    BY DEF Do, l
  <2> HIDE DEF r
  <2> QED
    BY <1>2, <2>1 DEF Statements
<1>5. body.gaps \subseteq r.gaps
  BY <1>1, DoFields
<1> HIDE DEF r, l
<1>6. Clear(r)
  BY <1>2, <1>3, <1>4, <1>5, ClearFromOne
<1> QED
  BY <1>6 DEF r

LEMMA ForClear ==
    ASSUME NEW body, Known(body), Clear(body), NEW cond \in Conditions,
           NEW increment \in Conditions, NEW labelled \in BOOLEAN
    PROVE  Clear(For(body, cond, increment, labelled))
<1> DEFINE r == For(body, cond, increment, labelled)
           l == Loop(body, labelled)
<1>1. body \in Statements
  BY DEF Known
<1>2. l \in Statements /\ l.messages = body.messages
  BY <1>1, LoopFields
<1>3. l.facts = body.facts
  BY <1>1 DEF Loop, Statements
<1>4. r.messages = If(cond # "false", l.messages) /\ r.facts = l.facts
  <2> HIDE DEF l
  <2>1. \E x, t, g, f : r = [l EXCEPT !.exits = x, !.throws = t, !.messages = If(cond # "false", @),
                                      !.gaps = @ \cup g, !.from = f]
    BY DEF For, l
  <2> HIDE DEF r
  <2> QED
    BY <1>2, <2>1 DEF Statements
<1>5. body.gaps \subseteq r.gaps
  BY <1>1, ForFields
<1> HIDE DEF r, l
<1>6. r.messages \subseteq body.messages
  BY <1>2, <1>4 DEF If
<1>7. Clear(r)
  BY <1>3, <1>4, <1>5, <1>6, ClearFromOne
<1> QED
  BY <1>7 DEF r

LEMMA ForTight ==
    ASSUME NEW body, Known(body), Tight(body), NEW cond \in Conditions, NEW increment \in Conditions
    PROVE  Tight(For(body, cond, increment, FALSE))
<1> DEFINE r == For(body, cond, increment, FALSE)
           l == Loop(body, FALSE)
           f == [e \in Entries |->
                   IF e = "top" \/ (e = "label" /\ FALSE)
                   THEN Throws(cond) \cup If(CanBe(cond, "false"), {"fallthru"})
                        \cup If(CanBe(cond, "true"),
                                Rounds(body.from.top, body.from.top, cond, increment, FALSE))
                   ELSE Rounds(body.from[e], body.from.top, cond, increment, FALSE)]
<1>1. body \in Statements
  BY DEF Known
<1>2. /\ r.exits = ForExits(body.exits, cond, increment) \cup Breaks(body, FALSE)
      /\ r.comeFrom <=> body.comeFrom
  <2> HIDE DEF For
  <2>1. ASSUME NEW k \in BOOLEAN
        PROVE  /\ For(body, cond, increment, k).exits =
                      ForExits(body.exits, cond, increment) \cup Breaks(body, k)
               /\ For(body, cond, increment, k).comeFrom <=> body.comeFrom \/ k
    BY <1>1, ForFields
  <2>2. FALSE \in BOOLEAN
    OBVIOUS
  <2>3. /\ r.exits = ForExits(body.exits, cond, increment) \cup Breaks(body, FALSE)
        /\ r.comeFrom <=> body.comeFrom \/ FALSE
    BY <2>1, <2>2
  <2> QED
    BY <2>3
<1>3. r.exits = ForExits(body.exits, cond, increment)
  BY <1>2 DEF Breaks, If
<1>4. l \in Statements
  BY <1>1, LoopFields
<1>5. r.from = f
  <2> HIDE DEF l, f
  <2>1. \E x, t, m, g : r = [l EXCEPT !.exits = x, !.throws = t, !.messages = m, !.gaps = @ \cup g,
                                      !.from = f]
    BY <1>4 DEF For, l, f, Statements
  <2> HIDE DEF r
  <2> QED
    BY <1>4, <2>1 DEF Statements
<1>6. r.from["top"] = Throws(cond) \cup If(CanBe(cond, "false"), {"fallthru"})
                      \cup If(CanBe(cond, "true"),
                              Rounds(body.from["top"], body.from["top"], cond, increment, FALSE))
  BY <1>5 DEF Entries
<1> HIDE DEF r, l, f
<1>7. /\ \A w \in Throws(cond) : w = "throw"
      /\ \A w \in Throws(increment) : w = "throw"
  BY ThrowsFacts
<1>8. ASSUME NEW w \in r.exits
      PROVE  \/ w = "throw"
             \/ w = "fallthru" /\ (CanBe(cond, "false") \/ (cond # "false" /\ "break" \in body.exits))
             \/ w \in body.exits /\ w \notin Onward
  BY <1>3, <1>7, <1>8 DEF ForExits, If, Tight, Onward
<1>9. "goto" \notin r.exits /\ "break" \notin r.exits /\ "continue" \notin r.exits
  BY <1>8 DEF Tight, Onward
<1>10. ASSUME "fallthru" \in r.exits PROVE "fallthru" \in r.from["top"]
  <2>1. CanBe(cond, "false") \/ (cond # "false" /\ "break" \in body.exits)
    BY <1>8, <1>10 DEF Onward
  <2>2. CASE CanBe(cond, "false")
    BY <1>6, <2>2 DEF If
  <2>3. CASE cond # "false" /\ "break" \in body.exits
    <3>1. CanBe(cond, "true")
      BY <2>3 DEF CanBe, Conditions
    <3>2. "break" \in body.from["top"]
      BY <2>3 DEF Tight, Onward
    <3>3. "fallthru" \in Rounds(body.from["top"], body.from["top"], cond, increment, FALSE)
      BY <3>2, RoundsOut
    <3> QED
      BY <1>6, <3>1, <3>3 DEF If
  <2> QED
    BY <2>1, <2>2, <2>3
<1>11. Tight(r)
  BY <1>2, <1>9, <1>10 DEF Tight, Onward
<1> QED
  BY <1>11 DEF r

LEMMA UnrolledFine ==
    ASSUME NEW a, NEW b, Known(a), Known(b)
    PROVE  /\ Clear(a) /\ Clear(b) => Clear(Unrolled(a, b))
           /\ Tight(a) /\ Tight(b) => Tight(Unrolled(a, b))
<1> DEFINE On(ways) == ways \cap {"fallthru", "continue"} # {}
           Stays(flags) == flags \cap {"fallthru", "continue", "break"} # {}
           all == a.from.top \cup If(On(a.from.top), b.from.top)
           out == (all \ {"fallthru", "break", "continue"})
                  \cup If("break" \in all \/ (On(a.from.top) /\ On(b.from.top)), {"fallthru"})
           x == UnrolledExits(a.exits, b.exits)
           j == Joined(a, b)
           r == Unrolled(a, b)
<1>1. a \in Statements /\ b \in Statements
  BY DEF Known
<1>2. j \in Statements
  BY <1>1, JoinedTyped
<1>3. /\ r.exits = x /\ r.messages = j.messages /\ r.facts = j.facts /\ r.comeFrom = j.comeFrom
      /\ r.from = Only(out) /\ j.gaps \subseteq r.gaps
  <2> HIDE DEF j, x, out
  <2>1. \E k, g : r = [j EXCEPT !.exits = x, !.jumps = k, !.gaps = @ \cup g, !.from = Only(out)]
    BY DEF Unrolled, j, x, out
  <2> HIDE DEF r
  <2> QED
    BY <1>2, <2>1 DEF Statements
<1>4. /\ j.messages = a.messages \cup b.messages /\ j.facts = a.facts \cup b.facts
      /\ j.gaps = a.gaps \cup b.gaps
      /\ j.comeFrom <=> a.comeFrom \/ b.comeFrom
  BY <1>1, JoinedFacts
<1> HIDE DEF j, r
<1>5. Clear(a) /\ Clear(b) => Clear(r)
  <2>1. r.gaps = {} => a.gaps = {} /\ b.gaps = {}
    BY <1>3, <1>4
  <2> QED
    BY <1>3, <1>4, <2>1, ClearFromTwo
<1>6. ASSUME Tight(a), Tight(b) PROVE Tight(r)
  <2>1. r.from["top"] = out
    BY <1>3 DEF Only, Entries
  <2>2. /\ "goto" \notin r.exits /\ "break" \notin r.exits /\ "continue" \notin r.exits
        /\ "fallthru" \in r.exits => Stays(a.exits) /\ Stays(b.exits)
    BY <1>3, <1>6 DEF UnrolledExits, If, Tight
  <2>3. /\ Stays(a.exits) => On(a.from["top"]) \/ "break" \in a.from["top"]
        /\ Stays(b.exits) => On(b.from["top"]) \/ "break" \in b.from["top"]
    BY <1>6 DEF Tight, Onward
  <2>4. "fallthru" \in r.exits => "break" \in all \/ (On(a.from["top"]) /\ On(b.from["top"]))
    BY <2>2, <2>3 DEF If
  <2>5. "fallthru" \in r.exits => "fallthru" \in r.from["top"]
    BY <2>1, <2>4 DEF If
  <2> QED
    BY <1>3, <1>4, <1>6, <2>2, <2>5 DEF Tight, Onward
<1> QED
  BY <1>5, <1>6 DEF r

LEMMA LabelClear ==
    ASSUME NEW s, Known(s), Clear(s)
    PROVE  Clear(Label(s))
<1> DEFINE r == Label(s)
<1>1. s \in Statements
  BY DEF Known
<1>2. r.gaps = s.gaps /\ r.messages = s.messages /\ r.facts = s.facts
  BY <1>1 DEF Label, Statements
<1> HIDE DEF r
<1>3. Clear(r)
  BY <1>2, ClearFromOne
<1> QED
  BY <1>3 DEF r

LEMMA CaseClear ==
    ASSUME NEW s, Known(s), Clear(s), NEW isDefault
    PROVE  Clear(Case(s, isDefault))
<1> DEFINE r == Case(s, isDefault)
<1>1. s \in Statements
  BY DEF Known
<1>2. r.gaps = s.gaps /\ r.messages = s.messages /\ r.facts = s.facts
  <2>1. \E l, d, f : r = [s EXCEPT !.comeFrom = TRUE, !.last = l, !.isCase = TRUE, !.default = d,
                                   !.from = f]
    BY <1>1 DEF Case, Statements
  <2> HIDE DEF r
  <2> QED
    BY <1>1, <2>1 DEF Statements
<1> HIDE DEF r
<1>3. Clear(r)
  BY <1>2, ClearFromOne
<1> QED
  BY <1>3 DEF r

LEMMA WithDefaultClear ==
    ASSUME NEW s, Known(s), Clear(s)
    PROVE  Clear(WithDefault(s))
<1>1. /\ Known(Simples.halt) /\ Clear(Simples.halt)
      /\ Known(Simples.break) /\ Clear(Simples.break)
  <2>1. {"halt", "break"} \subseteq DOMAIN Simples
    BY DEF Simples
  <2> HIDE DEF Simples, Known, Clear
  <2> QED
    BY <2>1, SimplesKnown, SimplesFine
<1> HIDE DEF Known, Clear, Simples, Compound, Case
<1>2. Known(SwitchError) /\ Clear(SwitchError)
  BY <1>1, CaseKnown, CaseClear DEF SwitchError
<1>3. Known(Compound(s, Simples.break)) /\ Clear(Compound(s, Simples.break))
  BY <1>1, CompoundKnown, CompoundClear
<1> QED
  BY <1>2, <1>3, CompoundClear DEF WithDefault

LEMMA SwitchClear ==
    ASSUME NEW s, Known(s), Clear(s), NEW cond \in Conditions
    PROVE  Clear(Switch(s, cond))
<1> DEFINE b == WithDefault(s)
           r == Switch(s, cond)
<1>1. Known(b) /\ Clear(b)
  BY WithDefaultKnown, WithDefaultClear
<1> HIDE DEF b
<1>2. b \in Statements
  BY <1>1 DEF Known
<1>3. r.gaps = b.gaps /\ r.messages = b.messages /\ r.facts = b.facts
  <2>1. \E x, t, k, f : r = [b EXCEPT !.exits = x, !.throws = t, !.hasCode = TRUE, !.last = "other",
                                      !.isCase = FALSE, !.default = FALSE, !.jumps = k, !.from = f]
    BY <1>2 DEF Switch, b, Statements
  <2> HIDE DEF r
  <2> QED
    BY <1>2, <2>1 DEF Statements
<1> HIDE DEF r
<1>4. Clear(r)
  BY <1>1, <1>3, ClearFromOne
<1> QED
  BY <1>4 DEF r

LEMMA FailureClear ==
    ASSUME NEW a, NEW b, Known(a), Known(b), Clear(a), Clear(b)
    PROVE  Clear(Failure(a, b))
<1> DEFINE r == Failure(a, b)
           j == Joined(a, b)
<1>1. a \in Statements /\ b \in Statements
  BY DEF Known
<1>2. j \in Statements
  BY <1>1, JoinedTyped
<1>3. r.gaps = j.gaps /\ r.messages = j.messages /\ r.facts = j.facts
  <2> HIDE DEF j
  <2>1. \E x, t, f : r = [j EXCEPT !.exits = x, !.throws = t, !.from = f]
    BY DEF Failure, j
  <2> HIDE DEF r
  <2> QED
    BY <1>2, <2>1 DEF Statements
<1>4. j.messages = a.messages \cup b.messages /\ j.facts = a.facts \cup b.facts
      /\ j.gaps = a.gaps \cup b.gaps
  BY <1>1, JoinedFacts
<1> HIDE DEF j, r
<1>5. Clear(r)
  BY <1>3, <1>4, ClearFromTwo
<1> QED
  BY <1>5 DEF r

LEMMA TryFinallyClear ==
    ASSUME NEW a, NEW b, Known(a), Known(b), Clear(a), Clear(b)
    PROVE  Clear(TryFinally(a, b))
<1> DEFINE r == TryFinally(a, b)
           j == Joined(a, b)
<1>1. a \in Statements /\ b \in Statements
  BY DEF Known
<1>2. j \in Statements
  BY <1>1, JoinedTyped
<1>3. j.messages = a.messages \cup b.messages /\ j.facts = a.facts \cup b.facts
      /\ j.gaps = a.gaps \cup b.gaps
  BY <1>1, JoinedFacts
<1>4. CASE a.exits \ {"halt"} = {"fallthru"}
  BY <1>4, CompoundClear DEF TryFinally
<1>5. CASE a.exits \ {"halt"} # {"fallthru"}
  <2>1. r.gaps = j.gaps /\ r.messages = j.messages /\ r.facts = j.facts
    <3> HIDE DEF j
    <3>1. \E x, t, f : r = [j EXCEPT !.exits = x, !.throws = t, !.from = f]
      BY <1>5 DEF TryFinally, j
    <3> HIDE DEF r
    <3> QED
      BY <1>2, <3>1 DEF Statements
  <2> HIDE DEF j, r
  <2>2. Clear(r)
    BY <1>3, <2>1, ClearFromTwo
  <2> QED
    BY <2>2 DEF r
<1> QED
  BY <1>4, <1>5

LEMMA TryCatchClear ==
    ASSUME NEW body, Known(body), Clear(body), NEW catches, IsClauses(catches),
           \A c \in Elements(catches) : Clear(c.handler)
    PROVE  Clear(TryCatch(body, catches))
<1> DEFINE r == TryCatch(body, catches)
           kept == Kept(body, catches)
           handlers == {c.handler : c \in Elements(catches)}
           m == body.messages \cup UNION {c.handler.messages : c \in kept}
           n == body.facts \cup UNION {h.facts : h \in handlers}
<1>1. body \in Statements
  BY DEF Known
<1>2. r.messages = m /\ r.facts = n
  BY <1>1, TryCatchFields
<1>3. r.gaps = {} => body.gaps = {} /\ \A c \in Elements(catches) : c.handler.gaps = {}
  BY <1>1, TryCatchFields
<1>4. kept \subseteq Elements(catches)
  BY DEF Kept
<1> HIDE DEF r, kept
<1>5. SUFFICES ASSUME r.gaps = {}, "not reachable" \in r.messages
               PROVE  "not reachable" \in r.facts
  BY DEF Clear, r
<1>6. CASE "not reachable" \in body.messages
  BY <1>2, <1>3, <1>5, <1>6 DEF Clear
<1>7. ASSUME NEW c \in kept, "not reachable" \in c.handler.messages
      PROVE  "not reachable" \in r.facts
  <2>1. "not reachable" \in c.handler.facts
    BY <1>3, <1>4, <1>5, <1>7 DEF Clear
  <2> QED
    BY <1>2, <1>4, <2>1
<1> QED
  BY <1>2, <1>5, <1>6, <1>7

-----------------------------------------------------------------------------
(* Justified: the construction                                             *)

\* What is built and what has been put aside is fine.
Fineness == Fine(now) /\ (saved = <<>> \/ \E s : saved = <<s>> /\ Fine(s))

LEMMA FinenessStarts == Init => Fineness
<1> SUFFICES ASSUME Init PROVE Fineness
  OBVIOUS
<1>1. PICK n \in DOMAIN Simples \cap sort.language : now = Simples[n]
  BY DEF Init
<1>2. saved = <<>>
  BY DEF Init
<1>3. Without(Guessed) => n \notin Guessed
  BY DEF Without
<1> QED
  BY <1>1, <1>2, <1>3, SimplesFine DEF Fineness, Fine

\* A construct of one statement, and one of two.
LEMMA FineFromOne ==
    ASSUME Fineness, NEW kind, NEW s, Makes(kind, s), Fine(now) => Fine(s)
    PROVE  Fineness'
<1>1. Fine(s) /\ sort' = sort /\ saved' = saved /\ now' = s
  BY DEF Makes, Fineness
<1>2. \A t : Fine(t)' <=> Fine(t)
  BY <1>1 DEF Fine, Without
<1> HIDE DEF Fine
<1> QED
  BY <1>1, <1>2 DEF Fineness

LEMMA FineFromTwo ==
    ASSUME Fineness, NEW kind, MakesOfTwo(kind), Fine(now')
    PROVE  Fineness'
<1>1. sort' = sort /\ saved' = <<>>
  BY DEF MakesOfTwo
<1>2. Fine(now)'
  BY <1>1 DEF Fine, Without
<1> HIDE DEF Fine
<1> QED
  BY <1>1, <1>2 DEF Fineness

LEMMA PairsFine ==
    ASSUME Fineness, saved # <<>>, NEW p \in Pairs
    PROVE  Fine(p[1]) /\ Fine(p[2])
<1> HIDE DEF Fine
<1>1. PICK s : saved = <<s>> /\ Fine(s)
  BY DEF Fineness
<1>2. saved[1] = s /\ (p = <<s, now>> \/ p = <<now, s>>)
  BY <1>1 DEF Pairs
<1> QED
  BY <1>1, <1>2 DEF Fineness

LEMMA ClausesClear ==
    ASSUME NEW handler, Clear(handler), NEW catches \in Clauses(handler)
    PROVE  \A c \in Elements(catches) : Clear(c.handler)
<1>1. Clear(Empty)
  <2>1. Simples.empty = Empty /\ "empty" \in DOMAIN Simples
    BY DEF Simples
  <2> HIDE DEF Simples, Empty, Clear
  <2> QED
    BY <2>1, SimplesFine
<1>2. \/ \E t \in CatchTypes : catches = <<Catch(t, handler)>>
      \/ \E t, u \in CatchTypes, h, g \in {handler, Empty} :
            catches = <<Catch(t, h), Catch(u, g)>>
  BY DEF Clauses
<1>3. ASSUME NEW t, NEW h \in {handler, Empty} PROVE Clear(Catch(t, h).handler)
  BY <1>1 DEF Catch
<1> HIDE DEF Clear, Empty, Catch
<1>4. \A c \in Elements(catches) : \E t : \E h \in {handler, Empty} : c = Catch(t, h)
  BY <1>2 DEF Elements
<1> QED
  BY <1>3, <1>4

LEMMA FinenessStep == IInv /\ Fineness /\ [Next]_vars => Fineness'
<1> SUFFICES ASSUME IInv, Fineness, [Next]_vars PROVE Fineness'
  OBVIOUS
<1>k. Known(now) /\ Fine(now)
  BY DEF IInv, Fineness
<1>p. ASSUME NEW kind, MakesOfTwo(kind), NEW p \in Pairs
      PROVE  Known(p[1]) /\ Known(p[2]) /\ Fine(p[1]) /\ Fine(p[2])
  BY <1>p, PairsKnown, PairsFine DEF MakesOfTwo
<1>g. ASSUME NEW kind \in Guessed, Allowed(kind)
      PROVE  ~Without(Guessed)
  BY <1>g DEF Allowed, Without
<1> HIDE DEF Known, IInv, Fineness
<1>1. CASE Begin
  <2>1. PICK n \in DOMAIN Simples \cap sort.language : now' = Simples[n]
    BY <1>1 DEF Begin, Starts
  <2>2. sort' = sort /\ saved' = <<now>>
    BY <1>1 DEF Begin
  <2>3. Without(Guessed) => n \notin Guessed
    BY DEF Without
  <2>4. Fine(now')
    BY <2>1, <2>3, SimplesFine DEF Fine
  <2>5. Fine(now)' /\ \A t : Fine(t)' <=> Fine(t)
    BY <2>2, <2>4 DEF Fine, Without
  <2> HIDE DEF Fine
  <2> QED
    BY <1>k, <2>2, <2>5 DEF Fineness
<1>2. CASE CompoundStatement
  <2>1. MakesOfTwo("compound")
    BY <1>2 DEF CompoundStatement
  <2>2. PICK p \in Pairs : now' = Compound(p[1], p[2])
    BY <1>2 DEF CompoundStatement
  <2>3. Fine(now')
    BY <1>p, <2>1, <2>2, CompoundClear, CompoundTight DEF Fine
  <2> QED
    BY <2>1, <2>3, FineFromTwo
<1>3. CASE ScopeStatement
  <2>1. Fine(Block(now))
    BY <1>k, BlockFine DEF Fine
  <2> QED
    BY <1>3, <2>1, FineFromOne DEF ScopeStatement
<1>4. CASE IfStatement
  <2>1. MakesOfTwo("if")
    BY <1>4 DEF IfStatement
  <2>2. PICK p \in Pairs, cond \in SortConditions : now' = IfElse(cond, p[1], p[2])
    BY <1>4 DEF IfStatement
  <2>3. cond \in Conditions
    BY ConditionsTyped
  <2>4. Fine(now')
    BY <1>p, <2>1, <2>2, <2>3, IfElseFine DEF Fine
  <2> QED
    BY <2>1, <2>4, FineFromTwo
<1>5. CASE DoStatement
  <2>1. PICK cond \in SortConditions, labelled \in BOOLEAN :
           /\ labelled => Allowed("label") /\ ~now.label
           /\ Makes("do", Do(now, cond, labelled))
    BY <1>5 DEF DoStatement
  <2>2. cond \in Conditions
    BY ConditionsTyped
  <2>3. Clear(Do(now, cond, labelled))
    BY <1>k, <2>2, DoClear DEF Fine
  <2>4. Without(Guessed) => labelled = FALSE
    BY <1>g, <2>1 DEF Guessed
  <2>5. Without(Guessed) => Tight(Do(now, cond, labelled))
    BY <1>k, <2>2, <2>4, DoTight DEF Fine
  <2>6. Fine(Do(now, cond, labelled))
    BY <2>3, <2>5 DEF Fine
  <2> QED
    BY <2>1, <2>6, FineFromOne
<1>6. CASE ForStatement
  <2>1. PICK cond \in SortConditions, increment \in SortConditions, labelled \in BOOLEAN :
           /\ labelled => Allowed("label") /\ ~now.label
           /\ Makes("for", For(now, cond, increment, labelled))
    BY <1>6 DEF ForStatement
  <2>2. cond \in Conditions /\ increment \in Conditions
    BY ConditionsTyped
  <2>3. Clear(For(now, cond, increment, labelled))
    BY <1>k, <2>2, ForClear DEF Fine
  <2>4. Without(Guessed) => labelled = FALSE
    BY <1>g, <2>1 DEF Guessed
  <2>5. Without(Guessed) => Tight(For(now, cond, increment, labelled))
    BY <1>k, <2>2, <2>4, ForTight DEF Fine
  <2>6. Fine(For(now, cond, increment, labelled))
    BY <2>3, <2>5 DEF Fine
  <2> QED
    BY <2>1, <2>6, FineFromOne
<1>7. CASE UnrolledLoopStatement
  <2>1. MakesOfTwo("foreach over a tuple")
    BY <1>7 DEF UnrolledLoopStatement
  <2>2. PICK p \in Pairs : now' = Unrolled(p[1], p[2])
    BY <1>7 DEF UnrolledLoopStatement
  <2>3. Fine(now')
    BY <1>p, <2>1, <2>2, UnrolledFine DEF Fine
  <2> QED
    BY <2>1, <2>3, FineFromTwo
<1>8. CASE LabelStatement
  <2>1. Makes("label", Label(now))
    BY <1>8 DEF LabelStatement
  <2>2. ~Without(Guessed)
    BY <1>g, <2>1 DEF Makes, Guessed
  <2>3. Fine(Label(now))
    BY <1>k, <2>2, LabelClear DEF Fine
  <2> QED
    BY <2>1, <2>3, FineFromOne
<1>9. CASE CaseStatement
  <2>1. PICK isDefault \in BOOLEAN : Makes("switch", Case(now, isDefault))
    BY <1>9 DEF CaseStatement
  <2>2. ~Without(Guessed)
    BY <1>g, <2>1 DEF Makes, Guessed
  <2>3. Fine(Case(now, isDefault))
    BY <1>k, <2>2, CaseClear DEF Fine
  <2> QED
    BY <2>1, <2>3, FineFromOne
<1>10. CASE SwitchStatement
  <2>1. PICK cond \in SortConditions \ {"true", "false"} : Makes("switch", Switch(now, cond))
    BY <1>10 DEF SwitchStatement
  <2>2. ~Without(Guessed) /\ cond \in Conditions
    BY <1>g, <2>1, ConditionsTyped DEF Makes, Guessed
  <2>3. Fine(Switch(now, cond))
    BY <1>k, <2>2, SwitchClear DEF Fine
  <2> QED
    BY <2>1, <2>3, FineFromOne
<1>11. CASE WithStatement
  <2>1. PICK cond \in SortConditions \ {"true", "false"} : Makes("with", With(now, cond))
    BY <1>11 DEF WithStatement
  <2>2. cond \in Conditions
    BY ConditionsTyped
  <2>3. Fine(With(now, cond))
    BY <1>k, <2>2, WithFine DEF Fine
  <2> QED
    BY <2>1, <2>3, FineFromOne
<1>12. CASE TryCatchStatement
  <2>1. MakesOfTwo("try") /\ ~Without(Guessed)
    BY <1>g, <1>12 DEF TryCatchStatement, MakesOfTwo, Guessed
  <2>2. PICK p \in Pairs : \E catches \in Clauses(p[2]) : now' = TryCatch(p[1], catches)
    BY <1>12 DEF TryCatchStatement
  <2>3. PICK catches \in Clauses(p[2]) : now' = TryCatch(p[1], catches)
    BY <2>2
  <2>4. Known(p[1]) /\ Known(p[2]) /\ Clear(p[1]) /\ Clear(p[2])
    BY <1>p, <2>1 DEF Fine
  <2>5. IsClauses(catches) /\ \A c \in Elements(catches) : Clear(c.handler)
    BY <2>4, ClausesKnown, ClausesClear
  <2>6. Fine(now')
    BY <2>1, <2>3, <2>4, <2>5, TryCatchClear DEF Fine
  <2> QED
    BY <2>1, <2>6, FineFromTwo
<1>13. CASE ScopeFailure
  <2>1. MakesOfTwo("try") /\ ~Without(Guessed)
    BY <1>g, <1>13 DEF ScopeFailure, MakesOfTwo, Guessed
  <2>2. PICK p \in Pairs : now' = Failure(p[1], p[2])
    BY <1>13 DEF ScopeFailure
  <2>3. Fine(now')
    BY <1>p, <2>1, <2>2, FailureClear DEF Fine
  <2> QED
    BY <2>1, <2>3, FineFromTwo
<1>14. CASE TryFinallyStatement
  <2>1. MakesOfTwo("finally") /\ ~Without(Guessed)
    BY <1>g, <1>14 DEF TryFinallyStatement, MakesOfTwo, Guessed
  <2>2. PICK p \in Pairs : now' = TryFinally(p[1], p[2])
    BY <1>14 DEF TryFinallyStatement
  <2>3. Fine(now')
    BY <1>p, <2>1, <2>2, TryFinallyClear DEF Fine
  <2> QED
    BY <2>1, <2>3, FineFromTwo
<1>15. CASE UNCHANGED vars
  <2>1. now' = now /\ saved' = saved /\ sort' = sort
    BY <1>15 DEF vars
  <2>2. \A t : Fine(t)' <=> Fine(t)
    BY <2>1 DEF Fine, Without
  <2> HIDE DEF Fine
  <2> QED
    BY <2>1, <2>2 DEF Fineness
<1> QED
  BY <1>1, <1>2, <1>3, <1>4, <1>5, <1>6, <1>7, <1>8, <1>9, <1>10, <1>11, <1>12, <1>13, <1>14,
     <1>15 DEF Next

\* Code of any size that blockExit() understands is called unreachable only if it
\* is, and a return is missed only at an end that can be reached, where nothing
\* jumps and nothing is tried.
THEOREM NoFalseAlarms == Spec => []Justified
<1>1. Init => IInv /\ Fineness
  BY InitIInv, FinenessStarts
<1>2. IInv /\ Fineness /\ [Next]_vars => IInv' /\ Fineness'
  BY NextStep, FinenessStep
<1>3. Fineness => Justified
  <2> SUFFICES ASSUME Fineness PROVE Justified
    OBVIOUS
  <2>1. Clear(now) /\ (Without(Guessed) => Tight(now))
    BY DEF Fineness, Fine
  <2>2. now.gaps = {} /\ "not reachable" \in now.messages => "not reachable" \in now.facts
    BY <2>1 DEF Clear
  <2>3. Without(Guessed) /\ "fallthru" \in now.exits => GoesOn(now)
    BY <2>1 DEF Tight, Onward, GoesOn, Entries
  <2> QED
    BY <2>2, <2>3 DEF Justified
<1> QED
  BY <1>1, <1>2, <1>3, PTL DEF Spec

=============================================================================
