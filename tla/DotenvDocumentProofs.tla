------------------------- MODULE DotenvDocumentProofs -------------------------
(***************************************************************************)
(* Theorems about DotenvDocument: the line editor, for texts and requests  *)
(* of any length, and any names and values.                                *)
(***************************************************************************)
EXTENDS DotenvDocument, FiniteSetTheorems, TLAPS

(* What is true of 0, and of n + 1 when it is of n, is true of every n: the set of    *)
(* the others has no least element, since its intervals 0..n are finite.              *)
LEMMA SetInduction ==
    ASSUME NEW S, 0 \in S, \A n \in Nat : n \in S => n + 1 \in S
    PROVE  \A n \in Nat : n \in S
<1> DEFINE T == {0..n : n \in Nat \ S}
<1> SUFFICES ASSUME Nat \ S # {} PROVE FALSE
  OBVIOUS
<1>1. T # {} /\ T \subseteq FiniteSubsetsOf(Nat)
  <2>1. \A n \in Nat : IsFiniteSet(0..n) /\ 0..n \subseteq Nat
    BY FS_Interval
  <2> QED BY <2>1 DEF FiniteSubsetsOf
<1>2. PICK x \in T : \A y \in T : <<y, x>> \notin StrictSubsetOrdering(Nat)
  <2> HIDE DEF T
  <2> QED BY <1>1, WFMin, FS_StrictSubsetOrderingWellFounded
<1>3. PICK n \in Nat \ S : x = 0..n
  OBVIOUS
<1>4. n # 0 /\ n - 1 \in Nat \ S
  BY <1>3
<1>5. 0..(n - 1) \in T /\ 0..(n - 1) \subseteq 0..n /\ 0..(n - 1) # 0..n
  BY <1>3, <1>4
<1>6. <<0..(n - 1), 0..n>> \in StrictSubsetOrdering(Nat)
  <2>1. 0..(n - 1) \in SUBSET Nat /\ 0..n \in SUBSET Nat
    BY <1>3, <1>4
  <2> QED BY <1>5, <2>1 DEF StrictSubsetOrdering
<1> QED BY <1>2, <1>3, <1>5, <1>6

(* The loop over the bindings is what its equation says.                              *)
LEMMA StagesDef ==
    ASSUME NEW t, NEW bs, Len(bs) \in Nat
    PROVE  /\ Stages(t, bs)[0] = t
           /\ \A i \in 1..Len(bs) :
                 Stages(t, bs)[i] = MutatedText(Stages(t, bs)[i - 1], bs[i][1], bs[i][2])
<1> DEFINE Loop(g, n) ==
             g = [i \in 0..n |-> IF i = 0 THEN t ELSE MutatedText(g[i - 1], bs[i][1], bs[i][2])]
           S == {n \in Nat : \E g : Loop(g, n)}
<1>1. 0 \in S
  <2>1. Loop([i \in 0..0 |-> t], 0)
    OBVIOUS
  <2> QED BY <2>1
<1>2. ASSUME NEW n \in Nat, n \in S PROVE n + 1 \in S
  <2>1. PICK g : Loop(g, n)
    BY <1>2
  <2> DEFINE h == [i \in 0..(n + 1) |->
                     IF i <= n THEN g[i] ELSE MutatedText(g[n], bs[i][1], bs[i][2])]
  <2>2. ASSUME NEW i \in 0..(n + 1)
        PROVE  h[i] = IF i = 0 THEN t ELSE MutatedText(h[i - 1], bs[i][1], bs[i][2])
    <3>1. CASE i = n + 1
      BY <3>1
    <3>2. CASE i # n + 1 /\ i # 0
      <4>1. i \in 0..n /\ i - 1 \in 0..(n + 1) /\ i - 1 <= n
        BY <3>2
      <4> QED BY <2>1, <3>2, <4>1
    <3>3. CASE i = 0
      BY <2>1, <3>3
    <3> QED BY <3>1, <3>2, <3>3
  <2> HIDE DEF h
  <2>3. Loop(h, n + 1)
    BY <2>2 DEF h
  <2> QED BY <2>3
<1>3. Len(bs) \in S
  <2> HIDE DEF S
  <2> QED BY <1>1, <1>2, SetInduction
<1>4. Loop(Stages(t, bs), Len(bs))
  BY <1>3 DEF Stages
<1> HIDE DEF S
<1> QED BY <1>4

-----------------------------------------------------------------------------
Settable == Values \cup {Empty}

(* Lines that dotenv.py and splitlines separate alike. *)
Lines == [body : Bodies, ending : {"LF", "CRLF", "CR", "NONE"}]

(* A text made of them: only the last line may be unterminated. *)
Regular(t) ==
    /\ t \in Seq(Lines)
    /\ \A i \in DOMAIN t : t[i].ending = "NONE" => i = Len(t)

(* What one binding does: line k is the target's, all others are what they were. *)
Edited(t, u, k, n, val) ==
    /\ Regular(u) /\ ValidLineEndings(u)
    /\ DOMAIN t \subseteq DOMAIN u /\ k \in DOMAIN u
    /\ u[k].body = Assign(n, val)
    /\ Matches(t, n) \subseteq {k} /\ (k \in DOMAIN t => k \in Matches(t, n))
    /\ \A i \in DOMAIN u \ {k} : i \in DOMAIN t /\ u[i].body = t[i].body
    /\ \A i \in DOMAIN t :
          \/ u[i].ending = t[i].ending
          \/ t[i].ending = "NONE" /\ i = Len(t) /\ Len(u) > Len(t)

LEMMA BodyFacts ==
    /\ \A n \in Names, val \in Settable :
          /\ Assign(n, val) \in Bodies
          /\ Assign(n, val).kind = "assign" /\ Assign(n, val).name = n
          /\ Assign(n, val).value = val
          /\ \A m \in Names : Assign(n, val) # Malformed(m)
    /\ \A b \in Bodies : b.kind = "assign" =>
          b.name \in Names /\ b.value \in Settable /\ b = Assign(b.name, b.value)
BY DEF Bodies, Assign, Malformed, Comment, EmptyLine, Settable

(* Changing one part of a line leaves the other. *)
LEMMA LineExcept ==
    ASSUME NEW l \in Lines
    PROVE  /\ \A b : [l EXCEPT !.body = b] = Line(b, l.ending)
           /\ \A e : [l EXCEPT !.ending = e] = Line(l.body, e)
BY DEF Lines, Line

LEMMA LineParts == \A b, e : Line(b, e).body = b /\ Line(b, e).ending = e
BY DEF Line

(* The target's line is there: only its body changes. *)
LEMMA ReplaceEdits ==
    ASSUME NEW t, Regular(t), ValidLineEndings(t), NEW n \in Names, NEW val \in Settable,
           NEW k \in DOMAIN t, Matches(t, n) = {k}
    PROVE  Edited(t, ReplaceLine(t, k, n, val), k, n, val)
<1> DEFINE u == ReplaceLine(t, k, n, val)
<1>1. t \in Seq(Lines) /\ t[k] \in Lines /\ t[k].ending # "SEP"
  <2>1. t \in Seq(Lines) /\ t[k] \in Lines
    BY DEF Regular
  <2> QED BY <2>1 DEF Lines
<1>0. u = [t EXCEPT ![k] = Line(Assign(n, val), t[k].ending)]
  BY <1>1, LineExcept DEF ReplaceLine
<1> HIDE DEF u
<1>2. Line(Assign(n, val), t[k].ending) \in Lines
  BY <1>1, BodyFacts DEF Line, Lines
<1>3. /\ DOMAIN u = DOMAIN t /\ Len(u) = Len(t)
      /\ \A i \in DOMAIN t : u[i].ending = t[i].ending
      /\ \A i \in DOMAIN t \ {k} : u[i] = t[i]
      /\ u[k].body = Assign(n, val)
      /\ u \in Seq(Lines)
  BY <1>0, <1>1, <1>2, LineParts
<1>4. Regular(u)
  BY <1>3 DEF Regular
<1>5. EndingsOf(u) = EndingsOf(t)
  BY <1>3 DEF EndingsOf
<1>6. ValidLineEndings(u)
  BY <1>5 DEF ValidLineEndings
<1> QED BY <1>3, <1>4, <1>6 DEF Edited, u

(* There is none: one is added, after a separator if the last line has none. *)
LEMMA AppendEdits ==
    ASSUME NEW t, Regular(t), ValidLineEndings(t), NEW n \in Names, NEW val \in Settable,
           Matches(t, n) = {}
    PROVE  Edited(t, AppendAssignment(t, n, val), Len(t) + 1, n, val)
<1> DEFINE u == AppendAssignment(t, n, val)
           style == IF "CRLF" \in EndingsOf(t) THEN "CRLF" ELSE "LF"
           added == Assign(n, val)
           k == Len(t) + 1
<1>1. t \in Seq(Lines) /\ Len(t) \in Nat /\ added \in Bodies /\ DOMAIN t = 1..Len(t)
  BY BodyFacts DEF Regular
<1>2. \/ (t = <<>> \/ Last(t).ending \in {"LF", "CRLF", "CR"}) /\ u = Append(t, Line(added, style))
      \/ /\ t # <<>> /\ Last(t).ending = "NONE"
         /\ u = Append([t EXCEPT ![Len(t)].ending = style], Line(added, "NONE"))
  <2>1. t # <<>> => Last(t) \in Lines
    BY <1>1 DEF Last
  <2> QED BY <2>1 DEF AppendAssignment, Lines
<1>3. style \in {"LF", "CRLF"} /\ Line(added, style) \in Lines /\ Line(added, "NONE") \in Lines
  BY <1>1 DEF Line, Lines
<1> HIDE DEF u, style, added
<1>4. /\ u \in Seq(Lines) /\ Len(u) = k /\ DOMAIN u = 1..k /\ u[k].body = added
      /\ \A i \in 1..Len(t) : u[i].body = t[i].body
      /\ \A i \in 1..Len(t) :
           \/ u[i].ending = t[i].ending
           \/ t[i].ending = "NONE" /\ i = Len(t) /\ u[i].ending = style
      /\ \A i \in 1..Len(t) : u[i].ending # "NONE"
      /\ u[k].ending \in {style, "NONE"}
  <2>1. CASE (t = <<>> \/ Last(t).ending \in {"LF", "CRLF", "CR"}) /\ u = Append(t, Line(added, style))
    <3>1. /\ u \in Seq(Lines) /\ Len(u) = k /\ DOMAIN u = 1..k /\ u[k] = Line(added, style)
          /\ \A i \in 1..Len(t) : u[i] = t[i]
      BY <1>1, <1>3, <2>1
    <3>2. \A i \in 1..Len(t) : t[i].ending # "NONE"
      BY <1>1, <2>1 DEF Last, Regular
    <3> QED BY <3>1, <3>2 DEF Line
  <2>2. CASE /\ t # <<>> /\ Last(t).ending = "NONE"
             /\ u = Append([t EXCEPT ![Len(t)].ending = style], Line(added, "NONE"))
    <3> DEFINE w == [t EXCEPT ![Len(t)].ending = style]
    <3>0. /\ Len(t) \in 1..Len(t) /\ t[Len(t)] \in Lines
          /\ w = [t EXCEPT ![Len(t)] = Line(t[Len(t)].body, style)]
          /\ Line(t[Len(t)].body, style) \in Lines
      <4>1. Len(t) \in 1..Len(t) /\ t[Len(t)] \in Lines
        BY <1>1, <2>2
      <4> QED BY <1>3, <4>1, LineExcept DEF Line, Lines
    <3>1. /\ w \in Seq(Lines) /\ Len(w) = Len(t)
          /\ \A i \in 1..Len(t) : w[i].body = t[i].body
          /\ \A i \in 1..Len(t) : w[i].ending = IF i = Len(t) THEN style ELSE t[i].ending
      BY <1>1, <3>0, LineParts
    <3> HIDE DEF w
    <3>2. /\ u \in Seq(Lines) /\ Len(u) = k /\ DOMAIN u = 1..k /\ u[k] = Line(added, "NONE")
          /\ \A i \in 1..Len(t) : u[i] = w[i]
      <4>1. u = Append(w, Line(added, "NONE"))
        BY <2>2 DEF w
      <4>2. w \in Seq(Lines) /\ Len(w) = Len(t) /\ Line(added, "NONE") \in Lines
        BY <1>3, <3>1
      <4> QED BY <1>1, <4>1, <4>2
    <3>3. t[Len(t)].ending = "NONE"
      BY <2>2 DEF Last
    <3>4. \A i \in 1..Len(t) : i # Len(t) => t[i].ending # "NONE"
      BY <1>1 DEF Regular
    <3> QED BY <1>3, <3>1, <3>2, <3>3, <3>4 DEF Line
  <2> QED BY <1>2, <2>1, <2>2
<1>5. Regular(u)
  <2>1. ASSUME NEW i \in 1..k, u[i].ending = "NONE" PROVE i = k
    <3>1. i \notin 1..Len(t)
      BY <1>4, <2>1
    <3> QED BY <1>1, <3>1
  <2> QED BY <1>4, <2>1 DEF Regular
<1>6. EndingsOf(u) \subseteq EndingsOf(t) \cup {style, "NONE"}
  <2>1. ASSUME NEW i \in 1..k PROVE u[i].ending \in EndingsOf(t) \cup {style, "NONE"}
    <3>1. CASE i \in 1..Len(t)
      <4>1. t[i].ending \in EndingsOf(t)
        BY <1>1, <3>1 DEF EndingsOf
      <4> QED BY <1>4, <3>1, <4>1
    <3>2. CASE i = k
      BY <1>4, <3>2
    <3> QED BY <1>1, <3>1, <3>2
  <2> QED BY <1>4, <2>1 DEF EndingsOf
<1>7. ValidLineEndings(u)
  BY <1>6 DEF ValidLineEndings, style
<1>8. Edited(t, u, k, n, val)
  <2>1. /\ DOMAIN t \subseteq DOMAIN u /\ k \in DOMAIN u /\ k \notin DOMAIN t
        /\ DOMAIN u \ {k} = DOMAIN t /\ Len(u) > Len(t)
    <3>1. /\ Len(t) \in Nat /\ DOMAIN t = 1..Len(t)
          /\ Len(u) = Len(t) + 1 /\ DOMAIN u = 1..(Len(t) + 1)
      BY <1>1, <1>4
    <3> QED BY <3>1
  <2> QED BY <1>1, <1>4, <1>5, <1>7, <2>1 DEF Edited, added
<1> QED BY <1>8 DEF u

(* One binding, of a text whose target can be edited. *)
LEMMA BindingEdits ==
    ASSUME NEW t, Regular(t), NEW n \in Names, NEW val \in Settable, ValidDocument(t, n)
    PROVE  \E k : Edited(t, MutatedText(t, n, val), k, n, val)
<1>1. ValidLineEndings(t)
  BY DEF ValidDocument
<1>2. CASE Matches(t, n) = {}
  BY <1>1, <1>2, AppendEdits DEF MutatedText
<1>3. CASE Matches(t, n) # {}
  <2>1. PICK k \in DOMAIN t : Matches(t, n) = {k}
    BY <1>3 DEF ValidDocument, Matches
  <2>2. Min(Matches(t, n)) = k
    <3>1. k \in Nat
      BY DEF Regular
    <3> QED BY <2>1, <3>1 DEF Min
  <2>3. MutatedText(t, n, val) = ReplaceLine(t, k, n, val)
    BY <1>3, <2>2 DEF MutatedText
  <2> QED BY <1>1, <2>1, <2>3, ReplaceEdits
<1> QED BY <1>2, <1>3

-----------------------------------------------------------------------------
(* What a text says of a name. *)
LEMMA MarkFacts ==
    ASSUME NEW t, Regular(t), NEW n \in Names
    PROVE  /\ MarkOf(t, n) = Bad <=> ~ValidDocument(t, n)
           /\ ValidDocument(t, n) =>
                /\ MarkOf(t, n) = Absent <=> Matches(t, n) = {}
                /\ \A i \in Matches(t, n) :
                     /\ i \in DOMAIN t /\ MarkOf(t, n) \in Settable
                     /\ t[i].body = Assign(n, MarkOf(t, n))
                     /\ Matches(t, n) = {i} /\ Min(Matches(t, n)) = i
<1>1. \A i \in DOMAIN t : t[i].body \in Bodies /\ i \in Nat
  <2>1. t \in Seq(Lines) /\ \A i \in DOMAIN t : t[i] \in Lines /\ i \in Nat
    BY DEF Regular
  <2> QED BY <2>1 DEF Lines
<1>2. ASSUME ValidDocument(t, n), NEW i \in Matches(t, n)
      PROVE  /\ i \in DOMAIN t /\ MarkOf(t, n) \in Settable
             /\ t[i].body = Assign(n, MarkOf(t, n))
             /\ Matches(t, n) = {i} /\ Min(Matches(t, n)) = i
  <2>1. i \in DOMAIN t /\ t[i].body.kind = "assign" /\ t[i].body.name = n
    BY DEF Matches
  <2>2. Matches(t, n) = {i}
    BY <1>2 DEF ValidDocument
  <2>3. Min({i}) = i
    BY <1>1, <2>1 DEF Min
  <2>4. MarkOf(t, n) = t[i].body.value
    BY <1>2, <2>2, <2>3 DEF MarkOf
  <2> QED BY <1>1, <2>1, <2>2, <2>3, <2>4, BodyFacts
<1>3. Absent \notin Settable /\ Bad \notin Settable /\ Absent # Bad
  BY MarksAssumption DEF Settable
<1> QED BY <1>2, <1>3 DEF MarkOf

(* After one binding the text says the same, but for the target. *)
LEMMA EditedMarks ==
    ASSUME NEW t, Regular(t), NEW n \in Names, NEW val \in Settable, ValidDocument(t, n),
           NEW u, NEW k, Edited(t, u, k, n, val), NEW m \in Names
    PROVE  /\ ValidDocument(u, m) <=> ValidDocument(t, m)
           /\ MarkOf(u, m) = IF m = n THEN val ELSE MarkOf(t, m)
<1>1. ValidLineEndings(t) /\ ValidLineEndings(u) /\ Regular(u)
  BY DEF ValidDocument, Edited
<1>2. /\ u[k].body = Assign(n, val) /\ Assign(n, val).kind = "assign"
      /\ Assign(n, val).name = n /\ Assign(n, val).value = val
      /\ Assign(n, val) # Malformed(m)
  BY BodyFacts DEF Edited
<1>3. k \in DOMAIN t => t[k].body.kind = "assign" /\ t[k].body.name = n /\ t[k].body # Malformed(m)
  <2>1. k \in DOMAIN t => k \in Matches(t, n)
    BY DEF Edited
  <2> QED BY <2>1, MarkFacts, BodyFacts
<1>4. (\E i \in DOMAIN u : u[i].body = Malformed(m)) <=> (\E i \in DOMAIN t : t[i].body = Malformed(m))
  BY <1>2, <1>3 DEF Edited
<1>5. CASE m = n
  <2>1. Matches(u, n) = {k}
    <3>1. \A i \in DOMAIN u \ {k} : i \in DOMAIN t /\ u[i].body = t[i].body /\ i \notin Matches(t, n)
      BY DEF Edited
    <3>2. k \in DOMAIN u
      BY DEF Edited
    <3> QED BY <1>2, <3>1, <3>2 DEF Matches
  <2>2. ValidDocument(u, n)
    BY <1>1, <1>4, <1>5, <2>1 DEF ValidDocument
  <2> QED BY <1>1, <1>2, <1>5, <2>1, <2>2, MarkFacts, BodyFacts
<1>6. CASE m # n
  <2>1. Matches(u, m) = Matches(t, m)
    <3>1. ASSUME NEW i PROVE i \in Matches(u, m) <=> i \in Matches(t, m)
      <4>1. i # k /\ i \in DOMAIN u => i \in DOMAIN t /\ u[i].body = t[i].body
        BY DEF Edited
      <4>2. i \in DOMAIN t => i \in DOMAIN u
        BY DEF Edited
      <4> QED BY <1>2, <1>3, <1>6, <4>1, <4>2 DEF Matches
    <3> QED BY <3>1
  <2>2. ValidDocument(u, m) <=> ValidDocument(t, m)
    BY <1>1, <1>4, <2>1 DEF ValidDocument
  <2>3. ASSUME NEW i \in Matches(t, m) PROVE u[i].body = t[i].body
    <3>1. i \in DOMAIN t /\ i # k
      BY <1>3, <1>6 DEF Matches
    <3> QED BY <3>1 DEF Edited
  <2>4. ASSUME ValidDocument(t, m), NEW i \in Matches(t, m) PROVE MarkOf(u, m) = MarkOf(t, m)
    <3>1. Min(Matches(t, m)) = i
      BY <2>4, MarkFacts
    <3> QED BY <2>1, <2>2, <2>3, <2>4, <3>1 DEF MarkOf
  <2> QED BY <1>6, <2>1, <2>2, <2>4 DEF MarkOf
<1> QED BY <1>5, <1>6

(* Setting what is set already changes nothing. *)
LEMMA SameEditsNothing ==
    ASSUME NEW t, Regular(t), NEW n \in Names, ValidDocument(t, n), MarkOf(t, n) \in Settable
    PROVE  MutatedText(t, n, MarkOf(t, n)) = t
<1>1. PICK k \in DOMAIN t : Matches(t, n) = {k} /\ Min(Matches(t, n)) = k
                              /\ t[k].body = Assign(n, MarkOf(t, n))
  <2>1. Matches(t, n) # {}
    BY MarkFacts, MarksAssumption DEF Settable
  <2> QED BY <2>1, MarkFacts
<1>2. t \in Seq(Lines) /\ t[k] \in Lines
  BY DEF Regular
<1>3. t[k].ending # "SEP" /\ Line(t[k].body, t[k].ending) = t[k]
  BY <1>2 DEF Lines, Line
<1>4. ReplaceLine(t, k, n, MarkOf(t, n)) = [t EXCEPT ![k] = Line(Assign(n, MarkOf(t, n)), t[k].ending)]
  BY <1>2, <1>3, LineExcept DEF ReplaceLine
<1>5. [t EXCEPT ![k] = t[k]] = t
  BY <1>2
<1> QED BY <1>1, <1>3, <1>4, <1>5 DEF MutatedText

-----------------------------------------------------------------------------
(* One binding changes the layout as the request it is part of may. *)
LEMMA EditedLayout ==
    ASSUME NEW t, Regular(t), NEW n \in Names, NEW val \in Settable,
           NEW u, NEW k, Edited(t, u, k, n, val),
           NEW pairs, NEW b \in pairs, b[1] = n, b[2] = val
    PROVE  SameLayout(t, u, pairs)
<1>1. ASSUME NEW i \in DOMAIN t
      PROVE  /\ i \in DOMAIN u
             /\ \/ u[i].ending = t[i].ending
                \/ t[i].ending = "NONE" /\ i = Len(t) /\ Len(u) > Len(t)
             /\ i # k => u[i].body = t[i].body
             /\ i = k => t[i].body.kind = "assign" /\ t[i].body.name = n
                          /\ u[i].body = Assign(n, val)
  BY DEF Edited, Matches
<1>2. ASSUME NEW i \in DOMAIN u \ DOMAIN t PROVE u[i].body = Assign(n, val)
  BY DEF Edited
<1> QED BY <1>1, <1>2 DEF SameLayout

(* What two edits of one request may do, the request may do. *)
LEMMA LayoutTransitive ==
    ASSUME NEW t, Regular(t), NEW u, Regular(u), NEW v, Regular(v), NEW pairs,
           SameLayout(t, u, pairs), SameLayout(u, v, pairs)
    PROVE  SameLayout(t, v, pairs)
<1>1. /\ Len(t) \in Nat /\ Len(u) \in Nat /\ Len(v) \in Nat
      /\ DOMAIN t = 1..Len(t) /\ DOMAIN u = 1..Len(u) /\ DOMAIN v = 1..Len(v)
  BY DEF Regular
<1>2. Len(t) <= Len(u) /\ Len(u) <= Len(v)
  <2>1. \A j \in 1..Len(t) : j <= Len(u)
    BY <1>1 DEF SameLayout
  <2>2. \A j \in 1..Len(u) : j <= Len(v)
    BY <1>1 DEF SameLayout
  <2> QED BY <1>1, <2>1, <2>2
<1>3. ASSUME NEW i \in DOMAIN u
      PROVE  /\ i \in DOMAIN v
             /\ \/ v[i].body = u[i].body
                \/ /\ u[i].body.kind = "assign"
                   /\ \E b \in pairs : u[i].body.name = b[1] /\ v[i].body = Assign(b[1], b[2])
             /\ \/ v[i].ending = u[i].ending
                \/ u[i].ending = "NONE" /\ i = Len(u) /\ Len(v) > Len(u)
  BY DEF SameLayout
<1>4. ASSUME NEW i \in DOMAIN t
      PROVE  /\ i \in DOMAIN v
             /\ \/ v[i].body = t[i].body
                \/ /\ t[i].body.kind = "assign"
                   /\ \E b \in pairs : t[i].body.name = b[1] /\ v[i].body = Assign(b[1], b[2])
             /\ \/ v[i].ending = t[i].ending
                \/ t[i].ending = "NONE" /\ i = Len(t) /\ Len(v) > Len(t)
  <2>1. /\ i \in DOMAIN u
        /\ \/ u[i].body = t[i].body
           \/ /\ t[i].body.kind = "assign"
              /\ \E b \in pairs : t[i].body.name = b[1] /\ u[i].body = Assign(b[1], b[2])
        /\ \/ u[i].ending = t[i].ending
           \/ t[i].ending = "NONE" /\ i = Len(t) /\ Len(u) > Len(t)
    BY DEF SameLayout
  <2>2. \/ v[i].body = t[i].body
        \/ /\ t[i].body.kind = "assign"
           /\ \E b \in pairs : t[i].body.name = b[1] /\ v[i].body = Assign(b[1], b[2])
    <3>1. CASE u[i].body = t[i].body
      BY <1>3, <2>1, <3>1
    <3>2. ASSUME t[i].body.kind = "assign", NEW b \in pairs, t[i].body.name = b[1],
                 u[i].body = Assign(b[1], b[2])
          PROVE  \E c \in pairs : t[i].body.name = c[1] /\ v[i].body = Assign(c[1], c[2])
      <4>1. u[i].body.name = b[1]
        BY <3>2 DEF Assign
      <4> QED BY <1>3, <2>1, <3>2, <4>1
    <3> QED BY <2>1, <3>1, <3>2
  <2> QED BY <1>1, <1>2, <1>3, <2>1, <2>2
<1>5. ASSUME NEW i \in DOMAIN v \ DOMAIN t
      PROVE  \E b \in pairs : v[i].body = Assign(b[1], b[2])
  <2>1. CASE i \notin DOMAIN u
    BY <2>1 DEF SameLayout
  <2>2. CASE i \in DOMAIN u
    <3>1. \E b \in pairs : u[i].body = Assign(b[1], b[2])
      BY <2>2 DEF SameLayout
    <3> QED BY <1>3, <2>2, <3>1
  <2> QED BY <2>1, <2>2
<1> QED BY <1>4, <1>5 DEF SameLayout

(* Bindings, as a request holds them: names with their values, no name twice. *)
LEMMA BindingFacts ==
    ASSUME NEW bs \in Bindings
    PROVE  /\ Len(bs) \in Nat \ {0} /\ DOMAIN bs = 1..Len(bs)
           /\ \A i \in 1..Len(bs) : bs[i][1] \in Names /\ bs[i][2] \in Settable
           /\ \A i, j \in 1..Len(bs) : bs[i][1] = bs[j][1] => i = j
<1> DEFINE pairs == Names \X Settable
<1>1. /\ bs \in BoundedSeq(pairs, Cardinality(Names)) /\ bs # <<>>
      /\ \A i, j \in DOMAIN bs : bs[i][1] = bs[j][1] => i = j
  BY DEF Bindings, Settable
<1>2. PICK n \in Nat : bs \in [1..n -> pairs]
  BY <1>1 DEF BoundedSeq, SeqOf
<1>3. bs \in Seq(pairs) /\ Len(bs) = n
  BY <1>2
<1> QED BY <1>1, <1>2, <1>3

(* The text behind the first i bindings: what it says, and what it looks like. *)
Reached(t, bs, i) ==
    LET u == Stages(t, bs)[i]
    IN  /\ Regular(u) /\ SameLayout(t, u, Range(bs))
        /\ \A m \in Names :
              /\ ValidDocument(u, m) <=> ValidDocument(t, m)
              /\ (\A j \in 1..i : bs[j][1] # m) => MarkOf(u, m) = MarkOf(t, m)
        /\ \A j \in 1..i : MarkOf(u, bs[j][1]) = bs[j][2]

LEMMA StagesReached ==
    ASSUME NEW t, Regular(t), NEW bs \in Bindings,
           \A i \in 1..Len(bs) : ValidDocument(t, bs[i][1])
    PROVE  \A i \in 0..Len(bs) : Reached(t, bs, i)
<1> DEFINE S == {i \in Nat : i <= Len(bs) => Reached(t, bs, i)}
<1>1. 0 \in S
  <2>1. Stages(t, bs)[0] = t
    BY BindingFacts, StagesDef
  <2>2. SameLayout(t, t, Range(bs))
    BY DEF SameLayout
  <2> QED BY <2>1, <2>2 DEF Reached
<1>2. ASSUME NEW i \in Nat, i \in S, i + 1 <= Len(bs) PROVE Reached(t, bs, i + 1)
  <2> DEFINE u == Stages(t, bs)[i]
             v == Stages(t, bs)[i + 1]
             n == bs[i + 1][1]
             val == bs[i + 1][2]
  <2>0. /\ i <= Len(bs) /\ i + 1 \in 1..Len(bs) /\ n \in Names /\ val \in Settable
        /\ \A j \in 1..i : j \in 1..Len(bs) /\ bs[j][1] \in Names /\ bs[j][1] # n
    BY <1>2, BindingFacts
  <2>1. Reached(t, bs, i)
    BY <1>2, <2>0
  <2>2. v = MutatedText(u, n, val)
    BY <2>0, BindingFacts, StagesDef
  <2> HIDE DEF u, v, n, val
  <2>3. /\ Regular(u) /\ SameLayout(t, u, Range(bs))
        /\ \A m \in Names : ValidDocument(u, m) <=> ValidDocument(t, m)
        /\ \A m \in Names : (\A j \in 1..i : bs[j][1] # m) => MarkOf(u, m) = MarkOf(t, m)
        /\ \A j \in 1..i : MarkOf(u, bs[j][1]) = bs[j][2]
    BY <2>1 DEF Reached, u
  <2>4. ValidDocument(u, n)
    BY <2>0, <2>3 DEF n
  <2>5. PICK k : Edited(u, v, k, n, val)
    BY <2>0, <2>2, <2>3, <2>4, BindingEdits
  <2>6. Regular(v) /\ SameLayout(u, v, Range(bs))
    <3>1. \E b \in Range(bs) : b[1] = n /\ b[2] = val
      BY <2>0, BindingFacts DEF Range, n, val
    <3> QED BY <2>0, <2>3, <2>5, <3>1, EditedLayout DEF Edited
  <2>7. SameLayout(t, v, Range(bs))
    BY <2>3, <2>6, LayoutTransitive
  <2>8. \A m \in Names : /\ ValidDocument(v, m) <=> ValidDocument(u, m)
                         /\ MarkOf(v, m) = IF m = n THEN val ELSE MarkOf(u, m)
    BY <2>0, <2>3, <2>4, <2>5, EditedMarks
  <2>9. ASSUME NEW m \in Names, \A j \in 1..(i + 1) : bs[j][1] # m
        PROVE  MarkOf(v, m) = MarkOf(t, m)
    <3>1. m # n /\ \A j \in 1..i : bs[j][1] # m
      BY <1>2, <2>9 DEF n
    <3> QED BY <2>3, <2>8, <3>1
  <2>10. ASSUME NEW j \in 1..(i + 1) PROVE MarkOf(v, bs[j][1]) = bs[j][2]
    <3>1. CASE j = i + 1
      BY <2>0, <2>8, <3>1 DEF n, val
    <3>2. CASE j \in 1..i
      BY <2>0, <2>3, <2>8, <3>2
    <3> QED BY <1>2, <3>1, <3>2
  <2> QED BY <2>3, <2>6, <2>7, <2>8, <2>9, <2>10 DEF Reached, v
<1>3. \A i \in Nat : i \in S
  <2>1. \A i \in Nat : i \in S => i + 1 \in S
    BY <1>2
  <2> HIDE DEF S
  <2> QED BY <1>1, <2>1, SetInduction
<1>4. Len(bs) \in Nat
  BY BindingFacts
<1> QED BY <1>3, <1>4

(* A request of the model, as DotenvFile holds it: the targets, each with its value. *)
LEMMA RequestFacts ==
    ASSUME NEW bs \in Bindings, NEW force
    PROVE  LET r == AsRequest(bs, force)
           IN  /\ r.force = force
               /\ DOMAIN r.values = {bs[i][1] : i \in 1..Len(bs)}
               /\ DOMAIN r.values \subseteq Names
               /\ \A i \in 1..Len(bs) : r.values[bs[i][1]] = bs[i][2]
<1> DEFINE T == {bs[i][1] : i \in 1..Len(bs)}
           C(n) == CHOOSE b \in Range(bs) : b[1] = n
           values == [n \in T |-> C(n)[2]]
<1>1. AsRequest(bs, force) = [force |-> force, values |-> values]
  BY BindingFacts DEF AsRequest
<1>2. T \subseteq Names
  BY BindingFacts
<1>3. ASSUME NEW i \in 1..Len(bs) PROVE values[bs[i][1]] = bs[i][2]
  <2>1. Range(bs) = {bs[j] : j \in 1..Len(bs)}
    BY BindingFacts DEF Range
  <2>2. C(bs[i][1]) \in Range(bs) /\ C(bs[i][1])[1] = bs[i][1]
    BY <2>1
  <2>3. C(bs[i][1]) = bs[i]
    BY <2>1, <2>2, BindingFacts
  <2> QED BY <2>3
<1> HIDE DEF values
<1>4. DOMAIN values = T
  BY DEF values
<1> QED BY <1>1, <1>2, <1>3, <1>4

(* The text is accepted exactly when what it says of the targets is acceptable.      *)
LEMMA AcceptedIff ==
    ASSUME NEW t, Regular(t), NEW bs \in Bindings, NEW force \in BOOLEAN
    PROVE  Accepted(t, bs, force) <=> Acceptable(View(t), AsRequest(bs, force))
<1> DEFINE r == AsRequest(bs, force)
<1>1. /\ r.force = force /\ DOMAIN r.values = {bs[i][1] : i \in 1..Len(bs)}
      /\ \A i \in 1..Len(bs) : bs[i][1] \in Names
  BY RequestFacts, BindingFacts
<1> HIDE DEF r
<1>2. ASSUME NEW n \in Names
      PROVE  ValidTarget(t, n, force)
               <=> View(t)[n] # Bad /\ (force \/ View(t)[n] \in {Absent, Empty})
  <2>1. View(t)[n] = MarkOf(t, n)
    BY DEF View
  <2>2. CASE ~ValidDocument(t, n)
    BY <2>1, <2>2 DEF ValidTarget, MarkOf
  <2>3. CASE ValidDocument(t, n) /\ Matches(t, n) = {}
    BY <2>1, <2>3, MarkFacts DEF ValidTarget
  <2>4. ASSUME ValidDocument(t, n), NEW i \in Matches(t, n)
        PROVE  ValidTarget(t, n, force)
               <=> View(t)[n] # Bad /\ (force \/ View(t)[n] \in {Absent, Empty})
    <3>1. /\ Matches(t, n) = {i} /\ t[i].body = Assign(n, MarkOf(t, n))
          /\ MarkOf(t, n) \in Settable
      BY <2>4, MarkFacts
    <3>2. t[i].body.value = MarkOf(t, n)
      BY <3>1, BodyFacts
    <3>3. MarkOf(t, n) # Bad /\ MarkOf(t, n) # Absent
      BY <3>1, MarksAssumption DEF Settable
    <3> QED BY <2>1, <2>4, <3>1, <3>2, <3>3 DEF ValidTarget
  <2> QED BY <2>2, <2>3, <2>4
<1>3. Accepted(t, bs, force) <=> \A i \in 1..Len(bs) : ValidTarget(t, bs[i][1], force)
  BY BindingFacts DEF Accepted
<1> QED BY <1>1, <1>2, <1>3 DEF Acceptable, Targets, r

(* All targets of an accepted request are valid in the text.                          *)
LEMMA AcceptedIsValid ==
    ASSUME NEW t, NEW bs \in Bindings, NEW force, Accepted(t, bs, force)
    PROVE  \A i \in 1..Len(bs) : ValidDocument(t, bs[i][1])
BY BindingFacts DEF Accepted, ValidTarget

(* The whole request: what the new text says, and what it looks like.                 *)
LEMMA MutatedReached ==
    ASSUME NEW t, Regular(t), NEW bs \in Bindings, NEW force, Accepted(t, bs, force)
    PROVE  /\ Regular(Mutated(t, bs)) /\ SameLayout(t, Mutated(t, bs), Range(bs))
           /\ \A m \in Names : ValidDocument(Mutated(t, bs), m) <=> ValidDocument(t, m)
           /\ \A i \in 1..Len(bs) : MarkOf(Mutated(t, bs), bs[i][1]) = bs[i][2]
           /\ View(Mutated(t, bs)) = Updated(View(t), AsRequest(bs, force))
<1> DEFINE u == Mutated(t, bs)
           r == AsRequest(bs, force)
<1>1. Len(bs) \in Nat /\ Len(bs) \in 0..Len(bs)
  BY BindingFacts
<1>2. Reached(t, bs, Len(bs)) /\ u = Stages(t, bs)[Len(bs)]
  BY <1>1, AcceptedIsValid, StagesReached DEF Mutated
<1> HIDE DEF u
<1>3. /\ Regular(u) /\ SameLayout(t, u, Range(bs))
      /\ \A m \in Names : ValidDocument(u, m) <=> ValidDocument(t, m)
      /\ \A m \in Names : (\A j \in 1..Len(bs) : bs[j][1] # m) => MarkOf(u, m) = MarkOf(t, m)
      /\ \A j \in 1..Len(bs) : MarkOf(u, bs[j][1]) = bs[j][2]
  BY <1>2 DEF Reached
<1>4. /\ DOMAIN r.values = {bs[i][1] : i \in 1..Len(bs)}
      /\ \A i \in 1..Len(bs) : r.values[bs[i][1]] = bs[i][2]
  BY RequestFacts
<1> HIDE DEF r
<1>5. ASSUME NEW m \in Names
      PROVE  MarkOf(u, m) = IF m \in Targets(r) THEN r.values[m] ELSE MarkOf(t, m)
  <2>1. CASE m \in Targets(r)
    <3>1. PICK i \in 1..Len(bs) : m = bs[i][1]
      BY <1>4, <2>1 DEF Targets
    <3> QED BY <1>3, <1>4, <2>1, <3>1
  <2>2. CASE m \notin Targets(r)
    BY <1>3, <1>4, <2>2 DEF Targets
  <2> QED BY <2>1, <2>2
<1>6. View(u) = Updated(View(t), r)
  BY <1>5 DEF View, Updated
<1> QED BY <1>3, <1>6 DEF u, r

(* A second run of the loop over a text that holds the values already.               *)
LEMMA RepeatedStages ==
    ASSUME NEW u, Regular(u), NEW bs \in Bindings,
           \A i \in 1..Len(bs) : ValidDocument(u, bs[i][1]) /\ MarkOf(u, bs[i][1]) = bs[i][2]
    PROVE  Mutated(u, bs) = u
<1> DEFINE S == {i \in Nat : i <= Len(bs) => Stages(u, bs)[i] = u}
<1>1. 0 \in S
  BY BindingFacts, StagesDef
<1>2. ASSUME NEW i \in Nat, i \in S, i + 1 <= Len(bs) PROVE Stages(u, bs)[i + 1] = u
  <2>1. i <= Len(bs) /\ i + 1 \in 1..Len(bs) /\ (i + 1) - 1 = i
    BY <1>2, BindingFacts
  <2>2. Stages(u, bs)[i + 1] = MutatedText(Stages(u, bs)[i], bs[i + 1][1], bs[i + 1][2])
    <3> DEFINE k == i + 1
    <3>1. k \in 1..Len(bs) /\ k - 1 = i
      BY <2>1
    <3> HIDE DEF k
    <3>2. Stages(u, bs)[k] = MutatedText(Stages(u, bs)[k - 1], bs[k][1], bs[k][2])
      BY <3>1, BindingFacts, StagesDef
    <3> QED BY <3>1, <3>2 DEF k
  <2>3. Stages(u, bs)[i] = u
    BY <1>2, <2>1
  <2>4. bs[i + 1][1] \in Names /\ bs[i + 1][2] \in Settable
    BY <2>1, BindingFacts
  <2> QED BY <2>1, <2>2, <2>3, <2>4, SameEditsNothing
<1>3. \A i \in Nat : i \in S
  <2>1. \A i \in Nat : i \in S => i + 1 \in S
    BY <1>2
  <2> HIDE DEF S
  <2> QED BY <1>1, <2>1, SetInduction
<1>4. Len(bs) \in Nat
  BY BindingFacts
<1> QED BY <1>3, <1>4 DEF Mutated

-----------------------------------------------------------------------------
(* The texts the editor starts from are regular when no line ends in a separator that *)
(* only splitlines knows (the run separators shows what happens when one does).       *)
LEMMA TextsAreRegular ==
    ASSUME "SEP" \notin Endings, NEW t \in Texts
    PROVE  Regular(t)
<1> DEFINE ended == {Line(b, e) : b \in Bodies, e \in Endings}
           whole == BoundedSeq(ended, MaxLines)
<1>1. /\ ended \subseteq {l \in Lines : l.ending # "NONE"}
      /\ \A b \in Bodies : Line(b, "NONE") \in Lines
  BY EndingsAssumption DEF Line, Lines
<1>2. ASSUME NEW w \in whole
      PROVE  w \in Seq(Lines) /\ \A i \in DOMAIN w : w[i].ending # "NONE"
  <2>1. PICK n \in Nat : w \in [1..n -> ended]
    BY LinesAssumption DEF BoundedSeq, SeqOf
  <2> HIDE DEF ended
  <2>2. \A i \in 1..n : w[i] \in Lines /\ w[i].ending # "NONE"
    BY <1>1, <2>1
  <2> QED BY <2>1, <2>2
<1>3. t \in whole \/ \E w \in whole, b \in Bodies : t = Append(w, Line(b, "NONE"))
  <2>1. Texts = whole \cup {Append(u, l) : u \in {w \in whole : Len(w) < MaxLines},
                                         l \in {Line(b, "NONE") : b \in Bodies \ {EmptyLine}}}
    BY DEF Texts
  <2> HIDE DEF whole
  <2> QED BY <2>1
<1> HIDE DEF whole
<1>4. CASE t \in whole
  BY <1>2, <1>4 DEF Regular
<1>5. ASSUME NEW w \in whole, NEW b \in Bodies, t = Append(w, Line(b, "NONE"))
      PROVE  Regular(t)
  <2> DEFINE l == Line(b, "NONE")
  <2>1. w \in Seq(Lines) /\ l \in Lines /\ \A i \in DOMAIN w : w[i].ending # "NONE"
    BY <1>1, <1>2
  <2> HIDE DEF l
  <2>2. t = Append(w, l)
    BY <1>5 DEF l
  <2>3. t \in Seq(Lines) /\ \A i \in 1..Len(t) : i # Len(t) => t[i].ending # "NONE"
    BY <2>1, <2>2
  <2> QED BY <2>3 DEF Regular
<1> QED BY <1>3, <1>4, <1>5

(* One request, accepted or refused.                                                  *)
LEMMA NextKeepsRegular ==
    ASSUME Regular(text), [Next]_text
    PROVE  Regular(text)'
<1>1. CASE UNCHANGED text
  BY <1>1 DEF Regular
<1>2. ASSUME NEW bs \in Bindings, NEW force \in BOOLEAN, Set(bs, force)
      PROVE  Regular(text')
  BY <1>2, MutatedReached DEF Set
<1>3. ASSUME NEW bs \in Bindings, NEW force \in BOOLEAN, Refuse(bs, force)
      PROVE  UNCHANGED text
  BY <1>3 DEF Refuse
<1>4. Regular(text')
  BY <1>1, <1>2, <1>3 DEF Next
<1> QED BY <1>4 DEF Regular

(* The strengthening: every text reached is one whose lines dotenv.py and splitlines  *)
(* separate alike, and only the last line may be unterminated.                        *)
THEOREM TextsStayRegular ==
    ASSUME "SEP" \notin Endings
    PROVE  Spec => []Regular(text)
<1>1. Init => Regular(text)
  BY TextsAreRegular DEF Init
<1>2. Regular(text) /\ [Next]_text => Regular(text)'
  BY NextKeepsRegular
<1> QED BY <1>1, <1>2, PTL DEF Spec

(* Over any text and request: what is accepted, and what the new text says, is what   *)
(* DotenvView says of it, whatever the order of the bindings (mutate_dotenv_many).    *)
THEOREM EditorComputesTheView ==
    ASSUME "SEP" \notin Endings
    PROVE  Spec => []EditsTheView
<1>1. Regular(text) => EditsTheView
  BY AcceptedIff, MutatedReached DEF EditsTheView
<1> QED BY <1>1, TextsStayRegular, PTL

(* Once a request is accepted every binding finds a valid target: _mutated_bytes      *)
(* cannot raise half way through the loop.                                            *)
THEOREM RequestsNeverFailHalfWay ==
    ASSUME "SEP" \notin Endings
    PROVE  Spec => []NeverFailsHalfWay
<1>1. ASSUME Regular(text), NEW bs \in Bindings, NEW force \in BOOLEAN,
             Accepted(text, bs, force), NEW i \in DOMAIN bs
      PROVE  ValidDocument(Stages(text, bs)[i - 1], bs[i][1])
  <2>1. i \in 1..Len(bs) /\ i - 1 \in 0..Len(bs) /\ bs[i][1] \in Names
    BY BindingFacts
  <2>2. Reached(text, bs, i - 1) /\ ValidDocument(text, bs[i][1])
    BY <1>1, <2>1, AcceptedIsValid, StagesReached
  <2> QED BY <2>1, <2>2 DEF Reached
<1>2. Regular(text) => NeverFailsHalfWay
  BY <1>1 DEF NeverFailsHalfWay
<1> QED BY <1>2, TextsStayRegular, PTL

(* A request whose answer was lost can be made again with --force: the second one     *)
(* finds its own values and changes nothing.                                          *)
THEOREM RetriesChangeNothing ==
    ASSUME "SEP" \notin Endings
    PROVE  Spec => []RetryIsIdempotent
<1>1. ASSUME Regular(text), NEW bs \in Bindings, Accepted(text, bs, TRUE)
      PROVE  Mutated(Mutated(text, bs), bs) = Mutated(text, bs)
  <2> DEFINE u == Mutated(text, bs)
  <2>1. /\ Regular(u)
        /\ \A i \in 1..Len(bs) : ValidDocument(u, bs[i][1]) /\ MarkOf(u, bs[i][1]) = bs[i][2]
    <3>1. /\ Regular(u) /\ \A m \in Names : ValidDocument(u, m) <=> ValidDocument(text, m)
          /\ \A i \in 1..Len(bs) : MarkOf(u, bs[i][1]) = bs[i][2]
      BY <1>1, MutatedReached
    <3>2. \A i \in 1..Len(bs) : bs[i][1] \in Names /\ ValidDocument(text, bs[i][1])
      BY <1>1, AcceptedIsValid, BindingFacts
    <3> HIDE DEF u
    <3> QED BY <3>1, <3>2
  <2> HIDE DEF u
  <2>2. Mutated(u, bs) = u
    BY <2>1, RepeatedStages
  <2> QED BY <2>2 DEF u
<1>2. Regular(text) => RetryIsIdempotent
  BY <1>1 DEF RetryIsIdempotent
<1> QED BY <1>2, TextsStayRegular, PTL

(* No request moves, drops or rewrites a line that is not the assignment of one of    *)
(* its targets, whatever that line is, or changes how a line ends, but for an         *)
(* unterminated last one (_mutated_bytes).                                            *)
THEOREM EditsKeepTheLayout ==
    ASSUME "SEP" \notin Endings
    PROVE  Spec => []LayoutKept
<1>1. Regular(text) => LayoutKept
  BY MutatedReached DEF LayoutKept
<1> QED BY <1>1, TextsStayRegular, PTL

=============================================================================
