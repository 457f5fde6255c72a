-------------------------- MODULE AssistantProofs --------------------------
(***************************************************************************)
(* Theorems about the assistant suite: what its run checks holds of every  *)
(* behaviour, for any values of the suite's constants.  A behaviour of the *)
(* suite is a behaviour of the component it picked, and says nothing of    *)
(* the others: each theorem ends with that argument.                       *)
(***************************************************************************)
EXTENDS MCAssistant, FiniteSetTheorems, WellFoundedInduction, TLAPS

\* No step of the suite turns to another component.
LEMMA PartStays == ASSUME NEW p PROVE ~(part = p) /\ [Next]_vars => ~(part = p)'
  BY DEF Next, vars

-----------------------------------------------------------------------------
(* Quotas: the inductive invariant *)

QuotaDays == 0 .. MaxDay
QuotaRow  == [at : {"idle", "reserve", "over", "guard", "running", "done", "refused"},
         level : 1 .. 5, paid : QuotaDays]

QuotaTypes ==
    /\ s1 \in QuotaDays
    /\ s3 \in [Quota!Keys -> Int]
    /\ s6 \in [QuotaDays -> Nat]
    /\ s5 \in [Call -> QuotaRow]
    /\ \A c \in Call : s5[c].at = "idle" => s5[c].level = 1

\* A call was let through the daily level ...
QuotaPassed(row) == row.at \in {"guard", "running", "done"} \/ (row.at = "reserve" /\ row.level > 3)

\* ... or is in its counter for the moment, one too many.
QuotaPays(row) == QuotaPassed(row) \/ (row.at = "over" /\ row.level = 3)

QuotaThrough(d) == {c \in Call : s5[c].paid = d /\ QuotaPassed(s5[c])}
QuotaPaying(d)  == {c \in Call : s5[c].paid = d /\ QuotaPays(s5[c])}

\* A day's counter is not below the calls in it, but for the refunds it gave for
\* another day's; calls are let through against the counter only.
QuotaDayInv(d) ==
    /\ Cardinality(QuotaPaying(d)) <= s3[<<"day", d>>] + s6[d]
    /\ Cardinality(QuotaThrough(d)) <= Limit["day"] + s6[d]

QuotaInv == QuotaTypes /\ \A d \in QuotaDays : QuotaDayInv(d)

-----------------------------------------------------------------------------
(* Quotas: steps of one call *)

\* The keys of the daily counters, and the levels by their number.
LEMMA QuotaDayKeys ==
    /\ \A d \in QuotaDays : <<"day", d>> \in Quota!Keys /\ <<"agent", d>> \in Quota!Keys
    /\ <<"conv", 0>> \in Quota!Keys
    /\ \A d, e \in QuotaDays : /\ <<"day", d>> = <<"day", e>> => d = e
                          /\ <<"day", d>> # <<"agent", e>> /\ <<"day", d>> # <<"conv", 0>>
    /\ \A n \in 1 .. 5 : Quota!Levels[n] = "day" <=> n = 3
    /\ \A n \in 1 .. 5 : Quota!Levels[n] \notin Quota!Windows => Quota!Levels[n] \in {"day", "agent", "conv"}
    /\ Len(Quota!Levels) = 5
BY DEF Quota!Keys, Quota!Daily, QuotaDays, Quota!Levels, Quota!Windows

\* One call moves.
QuotaMoves(c, row) == s5' = [s5 EXCEPT ![c] = row]

\* It is in a set afterwards if its new row says so.
LEMMA QuotaSets ==
    ASSUME QuotaInv, NEW c \in Call, NEW row \in QuotaRow, QuotaMoves(c, row), NEW d \in QuotaDays
    PROVE  /\ QuotaThrough(d)' = IF row.paid = d /\ QuotaPassed(row) THEN QuotaThrough(d) \cup {c} ELSE QuotaThrough(d) \ {c}
           /\ QuotaPaying(d)' = IF row.paid = d /\ QuotaPays(row) THEN QuotaPaying(d) \cup {c} ELSE QuotaPaying(d) \ {c}
           /\ QuotaThrough(d) \subseteq QuotaPaying(d) /\ QuotaThrough(d)' \subseteq QuotaPaying(d)'
           /\ IsFiniteSet(QuotaPaying(d)) /\ IsFiniteSet(QuotaThrough(d))
           /\ IsFiniteSet(QuotaPaying(d)') /\ IsFiniteSet(QuotaThrough(d)')
<1>1. s5 \in [Call -> QuotaRow] /\ s5' \in [Call -> QuotaRow] /\ s5'[c] = row
      /\ \A b \in Call \ {c} : s5'[b] = s5[b]
  BY DEF QuotaInv, QuotaTypes, QuotaMoves
<1>2. /\ QuotaPaying(d) \in SUBSET Call /\ QuotaPaying(d)' \in SUBSET Call
      /\ QuotaThrough(d) \in SUBSET Call /\ QuotaThrough(d)' \in SUBSET Call
  BY DEF QuotaPaying, QuotaThrough
<1>3. /\ IsFiniteSet(QuotaPaying(d)) /\ IsFiniteSet(QuotaThrough(d))
      /\ IsFiniteSet(QuotaPaying(d)') /\ IsFiniteSet(QuotaThrough(d)')
  BY CallBounds, <1>2, FS_Subset
<1> QED
  BY <1>1, <1>3 DEF QuotaPaying, QuotaThrough, QuotaPays

\* A call that enters neither set leaves both bounds true.
LEMMA QuotaLeaves ==
    ASSUME QuotaInv, NEW c \in Call, NEW row \in QuotaRow, QuotaMoves(c, row), NEW d \in QuotaDays,
           row.paid = d /\ QuotaPassed(row) => c \in QuotaThrough(d),
           row.paid = d /\ QuotaPays(row) => c \in QuotaPaying(d),
           s3'[<<"day", d>>] = s3[<<"day", d>>], s6'[d] = s6[d]
    PROVE  QuotaDayInv(d)'
<1>1. /\ QuotaPaying(d)' \in SUBSET QuotaPaying(d) /\ QuotaThrough(d)' \in SUBSET QuotaThrough(d)
      /\ IsFiniteSet(QuotaPaying(d)) /\ IsFiniteSet(QuotaThrough(d))
  BY QuotaSets
<1>2. /\ Cardinality(QuotaPaying(d)') <= Cardinality(QuotaPaying(d))
      /\ Cardinality(QuotaThrough(d)') <= Cardinality(QuotaThrough(d))
      /\ Cardinality(QuotaPaying(d)) \in Nat /\ Cardinality(QuotaThrough(d)) \in Nat
      /\ Cardinality(QuotaPaying(d)') \in Nat /\ Cardinality(QuotaThrough(d)') \in Nat
  BY <1>1, FS_Subset, FS_CardinalityType
<1>3. s3[<<"day", d>>] \in Int /\ s6[d] \in Nat /\ Limit["day"] \in Nat
  BY CallBounds, QuotaDayKeys DEF QuotaInv, QuotaTypes
<1> QED
  BY <1>2, <1>3 DEF QuotaInv, QuotaDayInv

\* A call that was in a day's counter gives its unit back.
LEMMA QuotaGivesBack ==
    ASSUME QuotaInv, NEW c \in Call, NEW row \in QuotaRow, QuotaMoves(c, row), NEW d \in QuotaDays,
           ~QuotaPays(row), c \in QuotaPaying(d),
           s3'[<<"day", d>>] = s3[<<"day", d>>] - 1, s6'[d] = s6[d]
    PROVE  QuotaDayInv(d)'
<1>1. /\ QuotaPaying(d)' = QuotaPaying(d) \ {c} /\ QuotaThrough(d)' \in SUBSET QuotaThrough(d)
      /\ IsFiniteSet(QuotaPaying(d)) /\ IsFiniteSet(QuotaThrough(d)) /\ IsFiniteSet(QuotaThrough(d)')
  BY QuotaSets DEF QuotaPays
<1>2. /\ Cardinality(QuotaPaying(d)') = Cardinality(QuotaPaying(d)) - 1
      /\ Cardinality(QuotaThrough(d)') <= Cardinality(QuotaThrough(d))
      /\ Cardinality(QuotaPaying(d)) \in Nat /\ Cardinality(QuotaThrough(d)) \in Nat /\ Cardinality(QuotaThrough(d)') \in Nat
  BY <1>1, FS_RemoveElement, FS_Subset, FS_CardinalityType
<1>3. s3[<<"day", d>>] \in Int /\ s6[d] \in Nat /\ Limit["day"] \in Nat
  BY CallBounds, QuotaDayKeys DEF QuotaInv, QuotaTypes
<1> QED
  BY <1>2, <1>3 DEF QuotaInv, QuotaDayInv

\* A call is let through only if the incremented counter is within the limit.
LEMMA QuotaEnters ==
    ASSUME QuotaInv, NEW c \in Call, NEW row \in QuotaRow, QuotaMoves(c, row), NEW d \in QuotaDays,
           ~QuotaPays(s5[c]), QuotaPassed(row) => s3[<<"day", d>>] + 1 <= Limit["day"],
           s3'[<<"day", d>>] = s3[<<"day", d>>] + 1, s6'[d] = s6[d]
    PROVE  QuotaDayInv(d)'
<1>1. /\ QuotaPaying(d)' = QuotaPaying(d) \/ QuotaPaying(d)' = QuotaPaying(d) \cup {c}
      /\ c \notin QuotaPaying(d) /\ c \notin QuotaThrough(d)
      /\ QuotaPassed(row) \/ QuotaThrough(d)' = QuotaThrough(d)
      /\ QuotaThrough(d)' \in SUBSET (QuotaPaying(d)')
      /\ IsFiniteSet(QuotaPaying(d)) /\ IsFiniteSet(QuotaPaying(d)') /\ IsFiniteSet(QuotaThrough(d))
  <2>1. c \notin QuotaPaying(d) /\ c \notin QuotaThrough(d)
    BY DEF QuotaPaying, QuotaThrough, QuotaPays
  <2>2. QuotaThrough(d) \ {c} = QuotaThrough(d) /\ QuotaPaying(d) \ {c} = QuotaPaying(d)
    BY <2>1
  <2>3. /\ QuotaThrough(d)' \subseteq QuotaPaying(d)'
        /\ IsFiniteSet(QuotaPaying(d)) /\ IsFiniteSet(QuotaPaying(d)') /\ IsFiniteSet(QuotaThrough(d))
    BY QuotaSets
  <2>4. QuotaPaying(d)' = QuotaPaying(d) \/ QuotaPaying(d)' = QuotaPaying(d) \cup {c}
    BY <2>2, QuotaSets
  <2>5. QuotaPassed(row) \/ QuotaThrough(d)' = QuotaThrough(d)
    BY <2>2, QuotaSets
  <2> QED
    BY <2>1, <2>3, <2>4, <2>5
<1>2. /\ Cardinality(QuotaPaying(d)') <= Cardinality(QuotaPaying(d)) + 1
      /\ Cardinality(QuotaThrough(d)') <= Cardinality(QuotaPaying(d)')
      /\ Cardinality(QuotaPaying(d)) \in Nat /\ Cardinality(QuotaThrough(d)) \in Nat /\ Cardinality(QuotaThrough(d)') \in Nat
      /\ Cardinality(QuotaPaying(d)') \in Nat
  <2>1. /\ Cardinality(QuotaPaying(d)) \in Nat /\ Cardinality(QuotaThrough(d)) \in Nat /\ Cardinality(QuotaPaying(d)') \in Nat
        /\ Cardinality(QuotaThrough(d)') <= Cardinality(QuotaPaying(d)')
        /\ IsFiniteSet(QuotaThrough(d)')
    BY <1>1, FS_Subset, FS_CardinalityType
  <2>2. Cardinality(QuotaThrough(d)') \in Nat
    BY <2>1, FS_CardinalityType
  <2>3. Cardinality(QuotaPaying(d) \cup {c}) = Cardinality(QuotaPaying(d)) + 1
    BY <1>1, FS_AddElement
  <2>4. Cardinality(QuotaPaying(d)') <= Cardinality(QuotaPaying(d)) + 1
    <3>1. CASE QuotaPaying(d)' = QuotaPaying(d)
      BY <2>1, <3>1
    <3>2. CASE QuotaPaying(d)' = QuotaPaying(d) \cup {c}
      BY <2>1, <2>3, <3>2
    <3> QED
      BY <1>1, <3>1, <3>2
  <2> QED
    BY <2>1, <2>2, <2>4
<1>3. s3[<<"day", d>>] \in Int /\ s6[d] \in Nat /\ Limit["day"] \in Nat
  BY CallBounds, QuotaDayKeys DEF QuotaInv, QuotaTypes
<1>4. Cardinality(QuotaPaying(d)') <= s3'[<<"day", d>>] + s6'[d]
  BY <1>2, <1>3 DEF QuotaInv, QuotaDayInv
<1>5. CASE QuotaPassed(row)
  BY <1>2, <1>3, <1>4, <1>5 DEF QuotaDayInv
<1>6. CASE QuotaThrough(d)' = QuotaThrough(d)
  BY <1>2, <1>3, <1>4, <1>6 DEF QuotaInv, QuotaDayInv
<1> QED
  BY <1>1, <1>5, <1>6

-----------------------------------------------------------------------------
(* Quotas: steps *)

\* A step that leaves the daily counters alone and lets no call enter them.
LEMMA QuotaApart ==
    ASSUME QuotaInv, NEW c \in Call, NEW row \in QuotaRow, QuotaMoves(c, row),
           row.at # "idle",
           QuotaPassed(row) => QuotaPassed(s5[c]) /\ row.paid = s5[c].paid,
           QuotaPays(row) => QuotaPays(s5[c]) /\ row.paid = s5[c].paid,
           s3' \in [Quota!Keys -> Int], \A d \in QuotaDays : s3'[<<"day", d>>] = s3[<<"day", d>>],
           s6' = s6, s1' = s1
    PROVE  QuotaInv'
<1>1. \A d \in QuotaDays : QuotaDayInv(d)'
  BY QuotaLeaves DEF QuotaThrough, QuotaPaying
<1>2. QuotaTypes'
  BY DEF QuotaInv, QuotaTypes, QuotaMoves
<1> QED
  BY <1>1, <1>2 DEF QuotaInv

\* The steps that change a call's place only.
LEMMA QuotaGoesOn ==
    ASSUME QuotaInv, NEW c \in Call,
           Quota!Begin(c) \/ Quota!Lose(c) \/ Quota!Guard(c) \/ Quota!Succeed(c) \/ Quota!Fail(c)
    PROVE  QuotaInv'
<1>1. s5[c] \in QuotaRow /\ (s5[c].at = "idle" => s5[c].level = 1)
  BY DEF QuotaInv, QuotaTypes
<1>2. PICK at : /\ Quota!Goto(c, at)
                /\ \/ s5[c].at = "idle" /\ at = "reserve"
                   \/ s5[c].at = "guard" /\ at = "running"
                   \/ s5[c].at = "running" /\ at = "done"
                   \/ at = "refused"
  BY DEF Quota!Begin, Quota!Lose, Quota!Guard, Quota!Succeed, Quota!Fail
<1> DEFINE row == [s5[c] EXCEPT !.at = at]
<1>3. row \in QuotaRow /\ row.at = at /\ row.level = s5[c].level /\ row.paid = s5[c].paid
  BY <1>1, <1>2 DEF QuotaRow
<1>4. QuotaMoves(c, row)
  BY <1>2 DEF Quota!Goto, QuotaMoves, QuotaInv, QuotaTypes
<1>5. s3' = s3 /\ s6' = s6 /\ s1' = s1
  BY DEF Quota!Begin, Quota!Lose, Quota!Guard, Quota!Succeed, Quota!Fail
<1> HIDE DEF row
<1>6. (QuotaPassed(row) => QuotaPassed(s5[c])) /\ (QuotaPays(row) => QuotaPays(s5[c])) /\ row.at # "idle"
  BY <1>1, <1>2, <1>3 DEF QuotaPassed, QuotaPays
<1> QED
  BY <1>3, <1>4, <1>5, <1>6, QuotaApart DEF QuotaInv, QuotaTypes

\* Reservation, level by level.
LEMMA QuotaReserves ==
    ASSUME QuotaInv, NEW c \in Call, NEW l, Quota!Reserve(c, l)
    PROVE  QuotaInv'
<1>1. s5[c] \in QuotaRow /\ s5[c].at = "reserve" /\ l = Quota!Levels[s5[c].level] /\ s5[c].level \in 1 .. 5
  BY DEF QuotaInv, QuotaTypes, Quota!Reserve, Quota!Level, QuotaRow
<1> DEFINE row == IF Quota!Taken(c) > Quota!LimitOf(l) THEN [s5[c] EXCEPT !.at = "over", !.paid = s1]
                  ELSE IF s5[c].level < Len(Quota!Levels)
                       THEN [s5[c] EXCEPT !.level = @ + 1, !.paid = IF l = "day" THEN s1 ELSE @]
                  ELSE [s5[c] EXCEPT !.at = "guard"]
<1>2. QuotaMoves(c, row)
  <2>1. CASE Quota!Taken(c) > Quota!LimitOf(l)
    BY <2>1 DEF Quota!Reserve, QuotaMoves
  <2>2. CASE ~(Quota!Taken(c) > Quota!LimitOf(l)) /\ s5[c].level < Len(Quota!Levels)
    <3>1. s5' = [s5 EXCEPT ![c] = [s5[c] EXCEPT !.level = s5[c].level + 1,
                                                      !.paid = IF l = "day" THEN s1 ELSE s5[c].paid]]
      BY <2>2, Zenon DEF Quota!Reserve
    <3>2. row = [s5[c] EXCEPT !.level = s5[c].level + 1, !.paid = IF l = "day" THEN s1 ELSE s5[c].paid]
      BY <2>2
    <3> HIDE DEF row
    <3> QED
      BY <3>1, <3>2, Zenon DEF QuotaMoves
  <2>3. CASE ~(Quota!Taken(c) > Quota!LimitOf(l)) /\ ~(s5[c].level < Len(Quota!Levels))
    BY <2>3 DEF Quota!Reserve, QuotaMoves
  <2> QED
    BY <2>1, <2>2, <2>3
<1>3. /\ row \in QuotaRow
      /\ \/ Quota!Taken(c) > Quota!LimitOf(l) /\ row.at = "over" /\ row.level = s5[c].level /\ row.paid = s1
         \/ /\ ~(Quota!Taken(c) > Quota!LimitOf(l)) /\ row.at = "reserve" /\ row.level = s5[c].level + 1
            /\ row.paid = IF l = "day" THEN s1 ELSE s5[c].paid
         \/ row.at = "guard" /\ row.level = 5 /\ row.paid = s5[c].paid /\ s5[c].level = 5
  <2>1. s1 \in QuotaDays
    BY DEF QuotaInv, QuotaTypes
  <2>2. CASE Quota!Taken(c) > Quota!LimitOf(l)
    BY <1>1, <2>1, <2>2 DEF QuotaRow
  <2>3. CASE ~(Quota!Taken(c) > Quota!LimitOf(l)) /\ s5[c].level < 5
    <3>1. row = [at |-> "reserve", level |-> s5[c].level + 1, paid |-> IF l = "day" THEN s1 ELSE s5[c].paid]
      BY <1>1, <2>3, QuotaDayKeys DEF QuotaRow
    <3>2. s5[c].level + 1 \in 1 .. 5
      BY <1>1, <2>3
    <3> QED
      BY <1>1, <2>1, <2>3, <3>1, <3>2 DEF QuotaRow
  <2>4. CASE ~(Quota!Taken(c) > Quota!LimitOf(l)) /\ ~(s5[c].level < 5)
    BY <1>1, <2>4, QuotaDayKeys DEF QuotaRow
  <2> QED
    BY <2>2, <2>3, <2>4
<1> HIDE DEF row
<1>4. row.at # "idle" /\ s6' = s6 /\ s1' = s1 /\ s1 \in QuotaDays
  BY <1>3 DEF Quota!Reserve, QuotaInv, QuotaTypes
<1>5. CASE l # "day"
  <2>1. s5[c].level # 3
    BY <1>1, <1>5, QuotaDayKeys
  <2>2. /\ QuotaPassed(row) => QuotaPassed(s5[c]) /\ row.paid = s5[c].paid
        /\ QuotaPays(row) => QuotaPays(s5[c]) /\ row.paid = s5[c].paid
    BY <1>1, <1>3, <1>5, <2>1 DEF QuotaPassed, QuotaPays
  <2>3. s3' \in [Quota!Keys -> Int] /\ \A d \in QuotaDays : s3'[<<"day", d>>] = s3[<<"day", d>>]
    <3>1. CASE l \in Quota!Windows
      BY <3>1 DEF Quota!Reserve, QuotaInv, QuotaTypes
    <3>2. CASE l \notin Quota!Windows
      <4>1. Quota!Key(l, s1) \in Quota!Keys /\ \A d \in QuotaDays : Quota!Key(l, s1) # <<"day", d>>
        BY <1>1, <1>4, <1>5, <3>2, QuotaDayKeys DEF Quota!Key, Quota!Daily
      <4> QED
        <5>1. PICK k \in Quota!Keys : k = Quota!Key(l, s1)
          BY <4>1
        <5>2. s3' = [s3 EXCEPT ![k] = @ + 1] /\ s3 \in [Quota!Keys -> Int]
          BY <3>2, <5>1 DEF Quota!Reserve, QuotaInv, QuotaTypes
        <5> QED
          BY <4>1, <5>1, <5>2, QuotaDayKeys
    <3> QED
      BY <3>1, <3>2
  <2> QED
    BY <1>2, <1>3, <1>4, <2>2, <2>3, QuotaApart
<1>6. CASE l = "day"
  <2>1. s5[c].level = 3 /\ l \notin Quota!Windows /\ Quota!Key(l, s1) = <<"day", s1>> /\ Quota!Level(c) = l
    BY <1>1, <1>6, QuotaDayKeys DEF Quota!Key, Quota!Daily, Quota!Windows, Quota!Reserve
  <2>2. s3' = [s3 EXCEPT ![<<"day", s1>>] = @ + 1] /\ <<"day", s1>> \in Quota!Keys /\ s3 \in [Quota!Keys -> Int]
    BY <1>4, <2>1, QuotaDayKeys DEF Quota!Reserve, QuotaInv, QuotaTypes
  <2>3. /\ s3' \in [Quota!Keys -> Int] /\ s3'[<<"day", s1>>] = s3[<<"day", s1>>] + 1
        /\ \A d \in QuotaDays : d # s1 => s3'[<<"day", d>>] = s3[<<"day", d>>]
    BY <2>2, QuotaDayKeys
  <2>4. ~QuotaPays(s5[c]) /\ row.paid = s1
    BY <1>1, <1>3, <1>6, <2>1 DEF QuotaPays, QuotaPassed
  <2>5. QuotaPassed(row) => s3[<<"day", s1>>] + 1 <= Limit["day"]
    <3>1. Quota!Taken(c) = s3[<<"day", s1>>] + 1 /\ Quota!LimitOf(l) = Limit["day"]
      BY <1>6, <2>1 DEF Quota!Taken, Quota!LimitOf
    <3>2. QuotaPassed(row) => ~(Quota!Taken(c) > Quota!LimitOf(l))
      BY <1>3, <2>1 DEF QuotaPassed
    <3>3. s3[<<"day", s1>>] \in Int /\ Limit["day"] \in Nat
      BY CallBounds, <2>2
    <3> QED
      BY <3>1, <3>2, <3>3
  <2>6. QuotaDayInv(s1)'
    <3> DEFINE today == s1
    <3>1. \A d \in QuotaDays : d = s1 => QuotaDayInv(d)'
      BY <1>2, <1>3, <1>4, <2>3, <2>4, <2>5, QuotaEnters
    <3> QED
      BY <1>4, <3>1
  <2>7. \A d \in QuotaDays : d # s1 => QuotaDayInv(d)'
    BY <1>2, <1>3, <1>4, <2>3, <2>4, QuotaLeaves
  <2>8. QuotaTypes'
    BY <1>2, <1>3, <1>4, <2>3 DEF QuotaInv, QuotaTypes, QuotaMoves
  <2> QED
    BY <1>4, <2>6, <2>7, <2>8 DEF QuotaInv
<1> QED
  BY <1>5, <1>6

\* The call that was one too many gives its unit back to the key it was taken
\* from.
LEMMA QuotaRefuses ==
    ASSUME QuotaInv, NEW c \in Call, Quota!Refuse(c)
    PROVE  QuotaInv'
<1>1. s5[c] \in QuotaRow /\ s5[c].at = "over" /\ s5[c].level \in 1 .. 5 /\ s5[c].paid \in QuotaDays
  BY DEF QuotaInv, QuotaTypes, Quota!Refuse, QuotaRow
<1> DEFINE row == [s5[c] EXCEPT !.at = "refused"]
           l == Quota!Level(c)
<1>2. QuotaMoves(c, row)
  BY DEF Quota!Refuse, Quota!Goto, QuotaMoves, QuotaInv, QuotaTypes
<1>3. row \in QuotaRow /\ row.at = "refused"
  BY <1>1 DEF QuotaRow
<1> HIDE DEF row
<1>4. /\ ~QuotaPays(row) /\ ~QuotaPassed(row) /\ s6' = s6 /\ s1' = s1 /\ row.at # "idle"
      /\ l = Quota!Levels[s5[c].level]
  BY <1>3 DEF QuotaPays, QuotaPassed, Quota!Refuse, Quota!Level
<1>5. CASE l = "day"
  <2>1. s5[c].level = 3 /\ l \notin Quota!Windows /\ Quota!Key(l, s5[c].paid) = <<"day", s5[c].paid>>
    BY <1>1, <1>4, <1>5, QuotaDayKeys DEF Quota!Key, Quota!Daily, Quota!Windows
  <2>2. /\ s3' = [s3 EXCEPT ![<<"day", s5[c].paid>>] = @ - 1] /\ s3 \in [Quota!Keys -> Int]
        /\ <<"day", s5[c].paid>> \in Quota!Keys
    BY <1>1, <2>1, QuotaDayKeys DEF Quota!Refuse, QuotaInv, QuotaTypes
  <2>3. /\ s3' \in [Quota!Keys -> Int]
        /\ \A d \in QuotaDays : s3'[<<"day", d>>] = s3[<<"day", d>>] - (IF d = s5[c].paid THEN 1 ELSE 0)
    <3>1. PICK k \in Quota!Keys : k = <<"day", s5[c].paid>>
      BY <2>2
    <3>2. s3' \in [Quota!Keys -> Int] /\ s3'[k] = s3[k] - 1 /\ \A j \in Quota!Keys \ {k} : s3'[j] = s3[j]
      BY <2>2, <3>1
    <3>3. s3[k] \in Int /\ \A d \in QuotaDays : s3[<<"day", d>>] \in Int
      BY <2>2, QuotaDayKeys
    <3>4. \A d \in QuotaDays : d # s5[c].paid => <<"day", d>> \in Quota!Keys \ {k}
      BY <1>1, <3>1, QuotaDayKeys
    <3> QED
      BY <3>1, <3>2, <3>3, <3>4
  <2>4. \A d \in QuotaDays : d = s5[c].paid => c \in QuotaPaying(d)
    BY <1>1, <2>1 DEF QuotaPaying, QuotaPays
  <2>5. \A d \in QuotaDays : d = s5[c].paid => QuotaDayInv(d)'
    BY <1>2, <1>3, <1>4, <2>3, <2>4, QuotaGivesBack
  <2>6. \A d \in QuotaDays : d # s5[c].paid => QuotaDayInv(d)'
    <3>1. \A d \in QuotaDays : d # s5[c].paid => s3'[<<"day", d>>] = s3[<<"day", d>>]
      BY <2>2, QuotaDayKeys
    <3> QED
      BY <1>2, <1>3, <1>4, <3>1, QuotaLeaves
  <2>7. QuotaTypes'
    BY <1>2, <1>3, <1>4, <2>3 DEF QuotaInv, QuotaTypes, QuotaMoves
  <2> QED
    BY <2>5, <2>6, <2>7 DEF QuotaInv
<1>6. CASE l # "day"
  <2>1. s3' \in [Quota!Keys -> Int] /\ \A d \in QuotaDays : s3'[<<"day", d>>] = s3[<<"day", d>>]
    <3>1. CASE l \in Quota!Windows
      BY <3>1 DEF Quota!Refuse, QuotaInv, QuotaTypes
    <3>2. CASE l \notin Quota!Windows
      <4>1. Quota!Key(l, s5[c].paid) \in Quota!Keys /\ \A d \in QuotaDays : Quota!Key(l, s5[c].paid) # <<"day", d>>
        BY <1>1, <1>4, <1>6, <3>2, QuotaDayKeys DEF Quota!Key, Quota!Daily
      <4> QED
        <5>1. PICK k \in Quota!Keys : k = Quota!Key(l, s5[c].paid)
          BY <4>1
        <5>2. s3' = [s3 EXCEPT ![k] = @ - 1] /\ s3 \in [Quota!Keys -> Int]
          BY <3>2, <5>1 DEF Quota!Refuse, QuotaInv, QuotaTypes
        <5> QED
          BY <4>1, <5>1, <5>2, QuotaDayKeys
    <3> QED
      BY <3>1, <3>2
  <2> QED
    BY <1>2, <1>3, <1>4, <2>1, QuotaApart
<1> QED
  BY <1>5, <1>6

\* A denied call costs nothing: today's counters are decremented, and when the
\* call was paid on another day the refund is recorded as crossed.
LEMMA QuotaDenies ==
    ASSUME QuotaInv, NEW c \in Call, Quota!Deny(c)
    PROVE  QuotaInv'
<1>1. s5[c] \in QuotaRow /\ s5[c].at = "running" /\ s5[c].paid \in QuotaDays /\ s1 \in QuotaDays /\ s1' = s1
  BY DEF QuotaInv, QuotaTypes, Quota!Deny, QuotaRow
<1> DEFINE row == [s5[c] EXCEPT !.at = "refused"]
<1>2. QuotaMoves(c, row)
  BY DEF Quota!Deny, Quota!Goto, QuotaMoves, QuotaInv, QuotaTypes
<1>3. row \in QuotaRow /\ row.at = "refused"
  BY <1>1 DEF QuotaRow
<1> HIDE DEF row
<1>4. ~QuotaPays(row) /\ ~QuotaPassed(row) /\ row.at # "idle"
  BY <1>3 DEF QuotaPays, QuotaPassed
<1>5. /\ s3' \in [Quota!Keys -> Int]
      /\ s3'[<<"day", s1>>] = s3[<<"day", s1>>] - 1
      /\ \A d \in QuotaDays : d # s1 => s3'[<<"day", d>>] = s3[<<"day", d>>]
  <2>1. s3' = Quota!Refunded /\ s3 \in [Quota!Keys -> Int]
    BY DEF Quota!Deny, QuotaInv, QuotaTypes
  <2>2. /\ \A d \in QuotaDays : <<"day", d>> \in {<<"day", s1>>, <<"agent", s1>>, <<"conv", 0>>} <=> d = s1
        /\ \A d \in QuotaDays : <<"day", d>> \in Quota!Keys
    BY <1>1, QuotaDayKeys
  <2> QED
    BY <1>1, <2>1, <2>2 DEF Quota!Refunded
<1>6. /\ s6' \in [QuotaDays -> Nat]
      /\ s6'[s1] = s6[s1] + (IF s5[c].paid # s1 THEN 1 ELSE 0)
      /\ \A d \in QuotaDays : d # s1 => s6'[d] = s6[d]
  BY <1>1 DEF Quota!Deny, QuotaInv, QuotaTypes, QuotaDays
<1>7. \A d \in QuotaDays : d # s1 => QuotaDayInv(d)'
  BY <1>2, <1>3, <1>4, <1>5, <1>6, QuotaLeaves
<1>8. CASE s5[c].paid = s1
  <2>1. \A d \in QuotaDays : d = s1 => c \in QuotaPaying(d) /\ s6'[d] = s6[d]
    BY <1>1, <1>6, <1>8 DEF QuotaPaying, QuotaPays, QuotaPassed, QuotaInv, QuotaTypes
  <2>2. \A d \in QuotaDays : d = s1 => QuotaDayInv(d)'
    BY <1>2, <1>3, <1>4, <1>5, <2>1, QuotaGivesBack
  <2> QED
    BY <1>2, <1>3, <1>4, <1>5, <1>6, <1>7, <1>1, <2>2 DEF QuotaInv, QuotaTypes, QuotaMoves
<1>9. CASE s5[c].paid # s1
  <2>1. ASSUME NEW d \in QuotaDays, d = s1 PROVE QuotaDayInv(d)'
    <3>1. /\ QuotaPaying(d)' \in SUBSET QuotaPaying(d) /\ QuotaThrough(d)' \in SUBSET QuotaThrough(d)
          /\ IsFiniteSet(QuotaPaying(d)) /\ IsFiniteSet(QuotaThrough(d))
      BY <1>2, <1>3, <1>4, QuotaSets
    <3>2. /\ Cardinality(QuotaPaying(d)') <= Cardinality(QuotaPaying(d))
          /\ Cardinality(QuotaThrough(d)') <= Cardinality(QuotaThrough(d))
          /\ Cardinality(QuotaPaying(d)) \in Nat /\ Cardinality(QuotaThrough(d)) \in Nat
          /\ Cardinality(QuotaPaying(d)') \in Nat /\ Cardinality(QuotaThrough(d)') \in Nat
      BY <3>1, FS_Subset, FS_CardinalityType
    <3>3. s3[<<"day", d>>] \in Int /\ s6[d] \in Nat /\ Limit["day"] \in Nat
      BY CallBounds, QuotaDayKeys DEF QuotaInv, QuotaTypes
    <3>4. s3'[<<"day", d>>] = s3[<<"day", d>>] - 1 /\ s6'[d] = s6[d] + 1
      BY <1>5, <1>6, <1>9, <2>1
    <3> QED
      BY <3>2, <3>3, <3>4 DEF QuotaInv, QuotaDayInv
  <2> QED
    BY <1>2, <1>3, <1>4, <1>5, <1>6, <1>7, <1>1, <2>1 DEF QuotaInv, QuotaTypes, QuotaMoves
<1> QED
  BY <1>8, <1>9

-----------------------------------------------------------------------------
(* The daily limit *)

\* Nobody has called yet.
LEMMA QuotaStarts == Quota!Init => QuotaInv
<1> SUFFICES ASSUME Quota!Init PROVE QuotaInv
  OBVIOUS
<1>1. QuotaTypes
  BY CallBounds DEF Quota!Init, QuotaTypes, QuotaRow, QuotaDays
<1>2. ASSUME NEW d \in QuotaDays PROVE QuotaDayInv(d)
  <2>1. QuotaPaying(d) = {} /\ QuotaThrough(d) = {}
    BY DEF Quota!Init, QuotaPaying, QuotaThrough, QuotaPays, QuotaPassed
  <2>2. s3[<<"day", d>>] = 0 /\ s6[d] = 0
    BY QuotaDayKeys DEF Quota!Init, QuotaDays
  <2> QED BY <2>1, <2>2, FS_EmptySet, CallBounds DEF QuotaDayInv
<1> QED BY <1>1, <1>2 DEF QuotaInv

\* Every command of every call, and every minute and midnight that passes.
LEMMA QuotaStep == ASSUME QuotaInv, [Quota!Next]_Quota!vars PROVE QuotaInv'
<1>1. CASE UNCHANGED <<s3, s5, s6>> /\ s1' \in QuotaDays
  <2>1. \A d \in QuotaDays : QuotaDayInv(d)'
    BY <1>1 DEF QuotaInv, QuotaDayInv, QuotaPaying, QuotaThrough
  <2> QED BY <1>1, <2>1 DEF QuotaInv, QuotaTypes
<1>2. CASE \/ UNCHANGED Quota!vars \/ Quota!Midnight \/ Quota!Forget
           \/ \E l \in Quota!Windows : Quota!Slide(l)
  <2>1. UNCHANGED <<s3, s5, s6>> /\ s1' \in QuotaDays
    BY <1>2, CallBounds
       DEF Quota!vars, Quota!Midnight, Quota!Forget, Quota!Slide, QuotaInv, QuotaTypes, QuotaDays
  <2> QED BY <1>1, <2>1
<1>3. CASE \E c \in Call : \/ Quota!CheckL1User(c) \/ Quota!CheckL1Global(c)
                           \/ Quota!CheckL2Daily(c) \/ Quota!CheckL2Agent(c) \/ Quota!CheckL4(c)
  BY <1>3, QuotaReserves
     DEF Quota!CheckL1User, Quota!CheckL1Global, Quota!CheckL2Daily, Quota!CheckL2Agent, Quota!CheckL4
<1> QED BY <1>2, <1>3, QuotaGoesOn, QuotaRefuses, QuotaDenies DEF Quota!Next

\* The count of ToolQuota is the library's.
LEMMA QuotaCount == ASSUME NEW S PROVE Quota!Cardinality(S) = Cardinality(S)
  BY DEF Quota!Cardinality, Quota!IsFiniteSet, Cardinality, IsFiniteSet

\* The daily limit bounds the calls that are run on a day's account, whatever the
\* order of the counting commands of concurrent calls; a refund that crosses
\* midnight can admit one more (gateway/quota.py, executor.py).
THEOREM QuotaStays == Spec => []QuotaHolds
<1>1. part = "quota" /\ Init => QuotaInv
  BY QuotaStarts DEF Init
<1>2. part = "quota" /\ QuotaInv /\ [Next]_vars => QuotaInv' /\ (part = "quota")'
  BY QuotaStep DEF Next, vars, from5, from7, from8, from9, from10, from13, from16, Quota!vars
<1>3. (part = "quota" => QuotaInv) => QuotaHolds
  <2> SUFFICES ASSUME QuotaInv, NEW d \in QuotaDays
               PROVE  Quota!Cardinality(Quota!Admitted(d)) <= Limit["day"] + s6[d]
    BY DEF QuotaHolds, Quota!QuotaHolds, Quota!AdmittedWithinLimit, QuotaDays
  <2>1. Quota!Admitted(d) \in SUBSET QuotaThrough(d) /\ QuotaThrough(d) \in SUBSET Call
    BY DEF Quota!Admitted, QuotaThrough, QuotaPassed
  <2>2. /\ IsFiniteSet(QuotaThrough(d)) /\ IsFiniteSet(Quota!Admitted(d))
        /\ Cardinality(Quota!Admitted(d)) <= Cardinality(QuotaThrough(d))
    BY <2>1, FS_Subset, CallBounds
  <2>3. Cardinality(Quota!Admitted(d)) \in Nat /\ Cardinality(QuotaThrough(d)) \in Nat
    BY <2>2, FS_CardinalityType
  <2>4. /\ Cardinality(QuotaThrough(d)) <= Limit["day"] + s6[d]
        /\ s6[d] \in Nat /\ Limit["day"] \in Nat
    BY CallBounds DEF QuotaInv, QuotaDayInv, QuotaTypes
  <2>5. Quota!Cardinality(Quota!Admitted(d)) = Cardinality(Quota!Admitted(d))
    BY QuotaCount
  <2> QED BY <2>2, <2>3, <2>4, <2>5
<1>4. ~(part = "quota") /\ [Next]_vars => ~(part = "quota")'
  BY PartStays
<1> QED BY <1>1, <1>2, <1>3, <1>4, PTL DEF Spec
-----------------------------------------------------------------------------
(* The pool of provider calls *)

EgressPlaces == {"idle", "validate", "wait", "connect", "send", "stream", "read", "over"}
EgressRow == [pc : EgressPlaces, at : Address \cup {Egress!Nowhere}, released : BOOLEAN]

EgressOpen(row) == row.pc \in {"connect", "send", "stream"}

\* A call waits for a slot with an address the policy allowed; it has given its
\* slot back once it has read the stream to its end, and not while it is open.
EgressCall(row) ==
    /\ row.pc \in {"wait", "connect", "send", "stream"} => row.at \in Allowed
    /\ EgressOpen(row) => ~row.released
    /\ row.pc = "read" => row.released

EgressInv ==
    /\ s1 \in [Call -> EgressRow] /\ s2 \in Nat /\ s3 \in Address /\ s4 \in 0 .. MaxCalls
    /\ \A c \in Call : EgressCall(s1[c])
    /\ s2 + Cardinality({c \in Call : EgressOpen(s1[c])}) = Slots

\* A call that moves takes or gives back the one slot the move says.
LEMMA EgressMoves ==
    ASSUME EgressInv, NEW c \in Call,
           s1' \in [Call -> EgressRow], EgressCall(s1'[c]), \A b \in Call \ {c} : s1'[b] = s1[b],
           s2' \in Nat, s3' \in Address, s4' \in 0 .. MaxCalls,
           s2' = s2 + (IF EgressOpen(s1[c]) THEN 1 ELSE 0) - (IF EgressOpen(s1'[c]) THEN 1 ELSE 0)
    PROVE  EgressInv'
<1> DEFINE H == {b \in Call : EgressOpen(s1[b])}
           K == {b \in Call : EgressOpen(s1'[b])}
<1>1. \A b \in Call : EgressCall(s1'[b])
  BY DEF EgressInv
<1>2. IsFiniteSet(H) /\ IsFiniteSet(K)
  <2>1. H \in SUBSET Call /\ K \in SUBSET Call
    OBVIOUS
  <2> QED BY <2>1, FS_Subset, CallBounds
<1>3. (c \in H <=> EgressOpen(s1[c])) /\ (c \in K <=> EgressOpen(s1'[c])) /\ K \ {c} = H \ {c}
  OBVIOUS
<1>4. s2 \in Nat /\ Slots \in Nat /\ s2 + Cardinality(H) = Slots
  BY CallBounds DEF EgressInv
<1> HIDE DEF H, K
<1>5. /\ Cardinality(H) \in Nat /\ Cardinality(K) \in Nat /\ Cardinality(H \ {c}) \in Nat
      /\ Cardinality(H) = Cardinality(H \ {c}) + (IF c \in H THEN 1 ELSE 0)
      /\ Cardinality(K) = Cardinality(K \ {c}) + (IF c \in K THEN 1 ELSE 0)
  <2>1. ASSUME NEW S, IsFiniteSet(S)
        PROVE  /\ Cardinality(S) \in Nat /\ Cardinality(S \ {c}) \in Nat
               /\ Cardinality(S) = Cardinality(S \ {c}) + (IF c \in S THEN 1 ELSE 0)
    <3>1. Cardinality(S) \in Nat
      BY <2>1, FS_CardinalityType
    <3>2. Cardinality(S \ {c}) = IF c \in S THEN Cardinality(S) - 1 ELSE Cardinality(S)
      BY <2>1, FS_RemoveElement
    <3>3. Cardinality(S \ {c}) \in Nat
      BY <2>1, FS_Subset, FS_CardinalityType
    <3> QED BY <3>1, <3>2, <3>3
  <2> QED BY <1>2, <2>1
<1>6. s2' \in Nat
  OBVIOUS
<1>7. s2' + Cardinality(K) = Slots
  BY <1>3, <1>4, <1>5, <1>6
<1> QED BY <1>1, <1>7 DEF EgressInv, K

\* Nobody has called yet.
LEMMA EgressStarts == Egress!Init => EgressInv
<1> SUFFICES ASSUME Egress!Init PROVE EgressInv
  OBVIOUS
<1>1. /\ s1 \in [Call -> EgressRow]
      /\ \A c \in Call : EgressCall(s1[c]) /\ ~EgressOpen(s1[c])
  BY DEF Egress!Init, Egress!Fresh, EgressRow, EgressPlaces, EgressCall, EgressOpen
<1>2. {c \in Call : EgressOpen(s1[c])} = {}
  BY <1>1
<1> QED BY <1>1, <1>2, FS_EmptySet, CallBounds DEF Egress!Init, EgressInv

\* Every step of a call, and every change of what the name resolves to.
LEMMA EgressStep == ASSUME EgressInv, [Egress!Next]_Egress!vars PROVE EgressInv'
<1>1. CASE UNCHANGED Egress!vars \/ Egress!Rebind
  BY <1>1 DEF Egress!vars, Egress!Rebind, EgressInv
<1>2. ASSUME NEW c \in Call,
             \/ Egress!Start(c) \/ Egress!Validate(c) \/ Egress!GiveUp(c) \/ Egress!Acquire(c)
             \/ Egress!Connect(c) \/ Egress!Fail(c) \/ Egress!Discard(c) \/ Egress!Respond(c)
             \/ Egress!EndOfStream(c) \/ Egress!Close(c) \/ Egress!Again(c)
      PROVE  EgressInv'
  <2>1. /\ s1 \in [Call -> EgressRow] /\ s1[c] \in EgressRow /\ EgressCall(s1[c])
        /\ s1[c].at \in Address \cup {Egress!Nowhere} /\ s1[c].released \in BOOLEAN
        /\ s2 \in Nat /\ s3 \in Address /\ s4 \in 0 .. MaxCalls /\ MaxCalls \in Nat
    BY CallBounds DEF EgressInv, EgressRow
  <2>2. CASE Egress!Start(c)
    <3>1. s1' \in [Call -> EgressRow] /\ \A b \in Call \ {c} : s1'[b] = s1[b]
      BY <2>1, <2>2 DEF Egress!Start, Egress!To, EgressRow, EgressPlaces
    <3>2. EgressCall(s1'[c])
      BY <2>1, <2>2 DEF Egress!Start, Egress!To, EgressCall, EgressOpen, EgressRow
    <3>3. /\ s2' \in Nat /\ s3' \in Address /\ s4' \in 0 .. MaxCalls
          /\ s2' = s2 + (IF EgressOpen(s1[c]) THEN 1 ELSE 0) - (IF EgressOpen(s1'[c]) THEN 1 ELSE 0)
      BY <2>1, <2>2 DEF Egress!Start, Egress!To, EgressOpen, EgressRow
    <3> QED BY <3>1, <3>2, <3>3, EgressMoves
  <2>3. CASE Egress!Validate(c)
    <3>1. s1' \in [Call -> EgressRow] /\ \A b \in Call \ {c} : s1'[b] = s1[b]
      BY <2>1, <2>3 DEF Egress!Validate, EgressRow, EgressPlaces
    <3>2. EgressCall(s1'[c])
      BY <2>1, <2>3 DEF Egress!Validate, EgressCall, EgressOpen, EgressRow
    <3>3. /\ s2' \in Nat /\ s3' \in Address /\ s4' \in 0 .. MaxCalls
          /\ s2' = s2 + (IF EgressOpen(s1[c]) THEN 1 ELSE 0) - (IF EgressOpen(s1'[c]) THEN 1 ELSE 0)
      BY <2>1, <2>3 DEF Egress!Validate, EgressOpen, EgressRow
    <3> QED BY <3>1, <3>2, <3>3, EgressMoves
  <2>4. CASE Egress!GiveUp(c)
    <3>1. s1' \in [Call -> EgressRow] /\ \A b \in Call \ {c} : s1'[b] = s1[b]
      BY <2>1, <2>4 DEF Egress!GiveUp, Egress!To, EgressRow, EgressPlaces
    <3>2. EgressCall(s1'[c])
      BY <2>1, <2>4 DEF Egress!GiveUp, Egress!To, EgressCall, EgressOpen, EgressRow
    <3>3. /\ s2' \in Nat /\ s3' \in Address /\ s4' \in 0 .. MaxCalls
          /\ s2' = s2 + (IF EgressOpen(s1[c]) THEN 1 ELSE 0) - (IF EgressOpen(s1'[c]) THEN 1 ELSE 0)
      BY <2>1, <2>4 DEF Egress!GiveUp, Egress!To, EgressOpen, EgressRow
    <3> QED BY <3>1, <3>2, <3>3, EgressMoves
  <2>5. CASE Egress!Acquire(c)
    <3>1. s1' \in [Call -> EgressRow] /\ \A b \in Call \ {c} : s1'[b] = s1[b]
      BY <2>1, <2>5 DEF Egress!Acquire, EgressRow, EgressPlaces
    <3>2. EgressCall(s1'[c])
      BY <2>1, <2>5 DEF Egress!Acquire, EgressCall, EgressOpen, EgressRow
    <3>3. /\ s2' \in Nat /\ s3' \in Address /\ s4' \in 0 .. MaxCalls
          /\ s2' = s2 + (IF EgressOpen(s1[c]) THEN 1 ELSE 0) - (IF EgressOpen(s1'[c]) THEN 1 ELSE 0)
      BY <2>1, <2>5 DEF Egress!Acquire, EgressOpen, EgressRow
    <3> QED BY <3>1, <3>2, <3>3, EgressMoves
  <2>6. CASE Egress!Connect(c)
    <3>1. s1' \in [Call -> EgressRow] /\ \A b \in Call \ {c} : s1'[b] = s1[b]
      BY <2>1, <2>6 DEF Egress!Connect, Egress!Pinned, EgressRow, EgressPlaces
    <3>2. EgressCall(s1'[c])
      BY <2>1, <2>6 DEF Egress!Connect, Egress!Pinned, EgressCall, EgressOpen, EgressRow
    <3>3. /\ s2' \in Nat /\ s3' \in Address /\ s4' \in 0 .. MaxCalls
          /\ s2' = s2 + (IF EgressOpen(s1[c]) THEN 1 ELSE 0) - (IF EgressOpen(s1'[c]) THEN 1 ELSE 0)
      BY <2>1, <2>6 DEF Egress!Connect, Egress!Pinned, EgressOpen, EgressRow
    <3> QED BY <3>1, <3>2, <3>3, EgressMoves
  <2>7. CASE Egress!Respond(c)
    <3>1. s1' \in [Call -> EgressRow] /\ \A b \in Call \ {c} : s1'[b] = s1[b]
      BY <2>1, <2>7 DEF Egress!Respond, Egress!To, EgressRow, EgressPlaces
    <3>2. EgressCall(s1'[c])
      BY <2>1, <2>7 DEF Egress!Respond, Egress!To, EgressCall, EgressOpen, EgressRow
    <3>3. /\ s2' \in Nat /\ s3' \in Address /\ s4' \in 0 .. MaxCalls
          /\ s2' = s2 + (IF EgressOpen(s1[c]) THEN 1 ELSE 0) - (IF EgressOpen(s1'[c]) THEN 1 ELSE 0)
      BY <2>1, <2>7 DEF Egress!Respond, Egress!To, EgressOpen, EgressRow
    <3> QED BY <3>1, <3>2, <3>3, EgressMoves
  <2>8. CASE Egress!Again(c)
    <3>1. s1' \in [Call -> EgressRow] /\ \A b \in Call \ {c} : s1'[b] = s1[b]
      BY <2>1, <2>8 DEF Egress!Again, Egress!Fresh, EgressRow, EgressPlaces
    <3>2. EgressCall(s1'[c])
      BY <2>1, <2>8 DEF Egress!Again, Egress!Fresh, EgressCall, EgressOpen, EgressRow
    <3>3. /\ s2' \in Nat /\ s3' \in Address /\ s4' \in 0 .. MaxCalls
          /\ s2' = s2 + (IF EgressOpen(s1[c]) THEN 1 ELSE 0) - (IF EgressOpen(s1'[c]) THEN 1 ELSE 0)
      BY <2>1, <2>8 DEF Egress!Again, Egress!Fresh, EgressOpen, EgressRow
    <3> QED BY <3>1, <3>2, <3>3, EgressMoves
  <2>9. ASSUME NEW p \in {"read", "over"}, Egress!Release(c, p),
             s1[c].pc \in {"send", "stream", "read"}, s1[c].pc = "read" => p = "over"
        PROVE  EgressInv'
    <3>1. s1' \in [Call -> EgressRow] /\ \A b \in Call \ {c} : s1'[b] = s1[b]
      BY <2>1, <2>9 DEF Egress!Release, Egress!ReleaseOnce, EgressRow, EgressPlaces
    <3>2. EgressCall(s1'[c])
      BY <2>1, <2>9 DEF Egress!Release, Egress!ReleaseOnce, EgressCall, EgressOpen, EgressRow
    <3>3. /\ s2' \in Nat /\ s3' \in Address /\ s4' \in 0 .. MaxCalls
          /\ s2' = s2 + (IF EgressOpen(s1[c]) THEN 1 ELSE 0) - (IF EgressOpen(s1'[c]) THEN 1 ELSE 0)
      BY <2>1, <2>9 DEF Egress!Release, Egress!ReleaseOnce, EgressCall, EgressOpen, EgressRow
    <3> QED BY <3>1, <3>2, <3>3, EgressMoves
  <2> QED BY <1>2, <2>2, <2>3, <2>4, <2>5, <2>6, <2>7, <2>8, <2>9
          DEF Egress!Fail, Egress!Discard, Egress!EndOfStream, Egress!Close
<1> QED BY <1>1, <1>2 DEF Egress!Next

\* The count of ProviderEgress is the library's.
LEMMA EgressCount == ASSUME NEW S PROVE Egress!Cardinality(S) = Cardinality(S)
  BY DEF Egress!Cardinality, Egress!IsFiniteSet, Cardinality, IsFiniteSet

\* Every slot of the pool is free or held by exactly one open call, however streams
\* end and are closed, and an open call talks to an address that was checked
\* (provider_egress.py).
THEOREM PoolIsExact == Spec => []EgressHolds
<1>1. part = "egress" /\ Init => EgressInv
  BY EgressStarts DEF Init
<1>2. part = "egress" /\ EgressInv /\ [Next]_vars => EgressInv' /\ (part = "egress")'
  BY EgressStep DEF Next, vars, from5, from7, from8, from9, from10, from13, from16, Egress!vars
<1>3. (part = "egress" => EgressInv) => EgressHolds
  <2> SUFFICES ASSUME EgressInv PROVE Egress!TypeOK /\ Egress!SlotsAndPinsHold
    BY DEF EgressHolds
  <2>1. Egress!Holding = {c \in Call : EgressOpen(s1[c])}
    BY DEF EgressInv, EgressCall, EgressOpen, Egress!Holding
  <2>2. s2 + Egress!Cardinality(Egress!Holding) = Slots
    BY <2>1, EgressCount DEF EgressInv
  <2> QED BY <2>2 DEF EgressInv, EgressCall, EgressRow, Egress!TypeOK, Egress!SlotsAndPinsHold
<1>4. ~(part = "egress") /\ [Next]_vars => ~(part = "egress")'
  BY PartStays
<1> QED BY <1>1, <1>2, <1>3, <1>4, PTL DEF Spec
-----------------------------------------------------------------------------
(* Resumed streams *)

\* Only a settled action is told or has its receipt, the receipt has no notice
\* beside it, and nobody has accepted what still awaits an answer or was cancelled.
ResumeInv ==
    /\ s1 \in [memory : BOOLEAN, write : BOOLEAN]
    /\ s2 \in {"pending", "running"} \cup Resuming!Terminal
    /\ s12 \subseteq {s2} \cap Resuming!Terminal
    /\ s5 => s2 \in Resuming!Terminal
    /\ s3 => s2 \notin {"pending"} \cup Resuming!Cancelled
    /\ ~(s6 /\ s5)

\* Every step of confirmation, sweeper, clock and requests.
LEMMA ResumeStep == ASSUME ResumeInv, [Resuming!Next]_Resuming!vars PROVE ResumeInv'
<1> USE DEF ResumeInv, Resuming!Terminal, Resuming!Cancelled, Resuming!Finished
<1>1. CASE Resuming!Approve
  BY <1>1 DEF Resuming!Approve, Resuming!cache
<1>2. CASE Resuming!Cancel
  BY <1>2 DEF Resuming!Cancel, Resuming!cache
<1>3. CASE Resuming!Settle
  BY <1>3 DEF Resuming!Settle, Resuming!cache
<1>4. CASE Resuming!Crash
  BY <1>4 DEF Resuming!Crash, Resuming!cache
<1>11. CASE Resuming!Fence
  BY <1>11 DEF Resuming!Fence, Resuming!cache
<1>12. CASE Resuming!Project
  BY <1>12 DEF Resuming!Project, Resuming!cache
<1>5. CASE Resuming!Notify \/ Resuming!Tick \/ Resuming!HotExpires \/ Resuming!LockExpires
  <2>1. UNCHANGED <<s1, s2, s3, s5, s6, s12>>
    BY <1>5 DEF Resuming!Notify, Resuming!Tick, Resuming!HotExpires, Resuming!LockExpires,
                Resuming!db
  <2> QED BY <2>1
<1>6. ASSUME NEW r \in Resume,
             \/ Resuming!Start(r) \/ Resuming!Open(r) \/ Resuming!Observe(r) \/ Resuming!GiveUp(r)
             \/ Resuming!CleanUp(r) \/ Resuming!FreeLock(r) \/ Resuming!Leave(r) \/ Resuming!Again(r)
      PROVE  ResumeInv'
  <2>1. UNCHANGED <<s1, s2, s3, s5, s6, s12>>
    BY <1>6 DEF Resuming!Start, Resuming!Open, Resuming!Observe, Resuming!GiveUp, Resuming!CleanUp,
                Resuming!FreeLock, Resuming!Leave, Resuming!Again, Resuming!db, Resuming!cache
  <2> QED BY <2>1
<1>7. ASSUME NEW r \in Resume, Resuming!Reconcile(r) PROVE ResumeInv'
  BY <1>7 DEF Resuming!Reconcile, Resuming!cache
<1>13. ASSUME NEW r \in Resume, Resuming!ExpireUnanswered(r) PROVE ResumeInv'
  BY <1>13 DEF Resuming!ExpireUnanswered, Resuming!StillPending, Resuming!cache
<1>8. ASSUME NEW r \in Resume, Resuming!PersistNotice(r) PROVE ResumeInv'
  <2>1. UNCHANGED <<s1, s2, s3, s12>>
    BY <1>8 DEF Resuming!PersistNotice, Resuming!cache
  <2>2. s2 \in Resuming!Terminal => ~(s6' /\ s5')
    BY <1>8 DEF Resuming!PersistNotice, Resuming!NoticeStands
  <2>3. s2 \notin Resuming!Terminal => ~s5'
    BY <1>8 DEF Resuming!PersistNotice, Resuming!NoticeStands
  <2> QED BY <2>1, <2>2, <2>3
<1>9. ASSUME NEW r \in Resume, Resuming!Minimal(r) \/ Resuming!Load(r) PROVE ResumeInv'
  <2>1. UNCHANGED <<s1, s2, s3, s5, s6>>
    BY <1>9 DEF Resuming!Minimal, Resuming!Load, Resuming!db
  <2>2. s12' \subseteq s12 \cup ({s2} \cap Resuming!Terminal)
    BY <1>9 DEF Resuming!Minimal, Resuming!Load, Resuming!Proved
  <2> QED BY <2>1, <2>2
<1>10. CASE UNCHANGED Resuming!vars
  BY <1>10 DEF Resuming!vars
<1> QED BY <1>1, <1>2, <1>3, <1>4, <1>5, <1>6, <1>7, <1>8, <1>9, <1>10,
           <1>11, <1>12, <1>13 DEF Resuming!Next

\* What a resumed stream tells stays true, it closes no confirmation somebody has
\* accepted, and a notice of an unknown outcome never stands beside the receipt
\* (gateway/resume.py, api/chat.py).
THEOREM ResumesAreTrue == Spec => []ResumeHolds
<1>1. part = "resume" /\ Init => ResumeInv
  BY DEF Init, Resuming!Init, ResumeInv, Resuming!Terminal, Resuming!Cancelled, Resuming!Finished
<1>2. part = "resume" /\ ResumeInv /\ [Next]_vars => ResumeInv' /\ (part = "resume")'
  BY ResumeStep DEF Next, vars, from5, from7, from8, from9, from10, from13, from16, Resuming!vars
<1>3. (part = "resume" => ResumeInv) => ResumeHolds
  BY DEF ResumeHolds, ResumeInv, Resuming!ResumedIsTrue, Resuming!NoticeYieldsToReceipt
<1>4. ~(part = "resume") /\ [Next]_vars => ~(part = "resume")'
  BY PartStays
<1> QED BY <1>1, <1>2, <1>3, <1>4, PTL DEF Spec
-----------------------------------------------------------------------------
(* The schedule *)

ScheduleEvents == {"changed", "run"}

\* A queue holds the announcement of a change.
Announces(q) == \E i \in DOMAIN q : q[i] = "changed"

Pending == (\E a \in Request : Announces(s6[a])) \/ Announces(s3)

\* Unless an announcement was lost since the last query, one is on its way, or the
\* query just made or the schedule itself agrees with the table.
ScheduleInv ==
    /\ s2 = [j \in Request |-> s2[j]] /\ s3 \in Seq(ScheduleEvents)
    /\ s6 \in [Request -> Seq(ScheduleEvents)]
    /\ s4 \in {"down", "starting", "started", "subscribed"}
    /\ s4 # "down" /\ s7 = {} =>
         \/ Pending
         \/ s5 = Schedule!Enabled(s1)
         \/ s4 # "starting" /\ s5 = <<>> /\ s2 = Schedule!Enabled(s1)

\* Taking the first event of a queue takes no other.
LEMMA ScheduleTail ==
    ASSUME NEW q \in Seq(ScheduleEvents), q # <<>>
    PROVE  /\ Tail(q) \in Seq(ScheduleEvents) /\ Head(q) \in ScheduleEvents
           /\ Announces(q) => Head(q) = "changed" \/ Announces(Tail(q))
<1>1. /\ Len(q) \in Nat /\ Len(q) > 0 /\ DOMAIN q = 1 .. Len(q)
      /\ Tail(q) \in Seq(ScheduleEvents) /\ Head(q) = q[1] /\ Head(q) \in ScheduleEvents
      /\ Len(Tail(q)) = Len(q) - 1 /\ \A i \in 1 .. Len(q) - 1 : Tail(q)[i] = q[i + 1]
  OBVIOUS
<1>2. ASSUME NEW i \in 1 .. Len(q), q[i] = "changed", i # 1 PROVE Announces(Tail(q))
  <2>1. i - 1 \in 1 .. Len(q) - 1 /\ (i - 1) + 1 = i
    BY <1>1, <1>2
  <2>2. i - 1 \in DOMAIN Tail(q) /\ Tail(q)[i - 1] = "changed"
    BY <1>1, <1>2, <2>1
  <2> QED BY <2>2 DEF Announces
<1> QED BY <1>1, <1>2 DEF Announces

\* A queue keeps what it holds when an event is appended, and holds that too.
LEMMA ScheduleAppend ==
    ASSUME NEW q \in Seq(ScheduleEvents), NEW e \in ScheduleEvents
    PROVE  /\ Append(q, e) \in Seq(ScheduleEvents)
           /\ Announces(q) => Announces(Append(q, e))
           /\ e = "changed" => Announces(Append(q, e))
<1>1. /\ Len(q) \in Nat /\ DOMAIN q = 1 .. Len(q) /\ Append(q, e) \in Seq(ScheduleEvents)
      /\ Len(Append(q, e)) = Len(q) + 1 /\ DOMAIN Append(q, e) = 1 .. Len(q) + 1
      /\ Append(q, e)[Len(q) + 1] = e /\ \A i \in 1 .. Len(q) : Append(q, e)[i] = q[i]
  OBVIOUS
<1>2. \A i \in 1 .. Len(q) : i \in 1 .. Len(q) + 1
  BY <1>1
<1>3. Len(q) + 1 \in 1 .. Len(q) + 1
  BY <1>1
<1> QED BY <1>1, <1>2, <1>3 DEF Announces

\* A committed change owes its announcement.
LEMMA ScheduleChange ==
    ASSUME ScheduleInv, NEW a \in Request, NEW j, NEW row,
           NEW events \in {<<"changed">>, <<"changed", "run">>}, Schedule!Change(a, j, row, events)
    PROVE  ScheduleInv'
<1>1. events \in Seq(ScheduleEvents) /\ events[1] = "changed" /\ 1 \in DOMAIN events
  <2>1. /\ <<"changed">> \in Seq(ScheduleEvents) /\ <<"changed">>[1] = "changed"
        /\ 1 \in DOMAIN <<"changed">>
    BY DEF ScheduleEvents
  <2>2. /\ <<"changed", "run">> \in Seq(ScheduleEvents) /\ <<"changed", "run">>[1] = "changed"
        /\ 1 \in DOMAIN <<"changed", "run">>
    BY DEF ScheduleEvents
  <2> QED BY <2>1, <2>2
<1>2. s6' \in [Request -> Seq(ScheduleEvents)] /\ s6'[a] = events
  BY <1>1 DEF ScheduleInv, Schedule!Change
<1>3. Pending'
  BY <1>1, <1>2 DEF Pending, Announces
<1> QED BY <1>2, <1>3 DEF ScheduleInv, Schedule!Change

\* The steps of a request.
LEMMA ScheduleAdministration ==
    ASSUME ScheduleInv, NEW a \in Request, Schedule!Administration(a)
    PROVE  ScheduleInv'
<1>1. ASSUME NEW j \in Request, NEW g, NEW on, NEW run,
             Schedule!Add(a, j, g, on, run) \/ Schedule!UpdateStatus(a, j, on, run)
      PROVE  ScheduleInv'
  <2>1. CASE on /\ run
    <3>1. \E row : Schedule!Change(a, j, row, <<"changed", "run">>)
      BY <1>1, <2>1, Zenon DEF Schedule!Add, Schedule!UpdateStatus
    <3> QED BY <3>1, ScheduleChange
  <2>2. CASE ~(on /\ run)
    <3>1. \E row : Schedule!Change(a, j, row, <<"changed">>)
      BY <1>1, <2>2, Zenon DEF Schedule!Add, Schedule!UpdateStatus
    <3> QED BY <3>1, ScheduleChange
  <2> QED BY <2>1, <2>2
<1>5. ASSUME NEW j \in Request, NEW g, Schedule!Update(a, j, g) \/ Schedule!Delete(a, j)
      PROVE  ScheduleInv'
  <2>1. \E row : Schedule!Change(a, j, row, <<"changed">>)
    BY <1>5, Zenon DEF Schedule!Update, Schedule!Delete
  <2> QED BY <2>1, ScheduleChange
<1>2. ASSUME NEW j \in Request, Schedule!RunNow(a, j) PROVE ScheduleInv'
  <2>1. s6' \in [Request -> Seq(ScheduleEvents)] /\ \A b \in Request : Announces(s6[b]) => Announces(s6'[b])
    BY <1>2 DEF Schedule!RunNow, ScheduleInv, ScheduleEvents, Announces
  <2> QED BY <1>2, <2>1 DEF Schedule!RunNow, ScheduleInv, Pending, Schedule!Enabled
<1>3. CASE Schedule!Publish(a)
  <2>1. /\ s6[a] \in Seq(ScheduleEvents) /\ s6[a] # <<>> /\ s3 \in Seq(ScheduleEvents)
        /\ s6' = [s6 EXCEPT ![a] = Tail(s6[a])]
    BY <1>3 DEF Schedule!Publish, ScheduleInv
  <2>2. /\ s6' \in [Request -> Seq(ScheduleEvents)] /\ s6'[a] = Tail(s6[a])
        /\ \A b \in Request \ {a} : s6'[b] = s6[b]
    BY <2>1, ScheduleTail DEF ScheduleInv
  <2>3. Announces(s6[a]) => Head(s6[a]) = "changed" \/ Announces(s6'[a])
    BY <2>1, <2>2, ScheduleTail
  <2>4. CASE s4 = "subscribed"
    <3>1. s3' = Append(s3, Head(s6[a])) /\ s7' = s7
      BY <1>3, <2>4 DEF Schedule!Publish
    <3>2. /\ s3' \in Seq(ScheduleEvents) /\ (Announces(s3) => Announces(s3'))
          /\ Head(s6[a]) = "changed" => Announces(s3')
      BY <2>1, <3>1, ScheduleTail, ScheduleAppend
    <3>3. Pending => Pending'
      BY <2>2, <2>3, <3>2 DEF Pending
    <3> QED BY <1>3, <2>2, <3>1, <3>2, <3>3 DEF Schedule!Publish, ScheduleInv, Schedule!Enabled
  <2>5. CASE s4 # "subscribed"
    <3>1. s3' = s3 /\ (Head(s6[a]) = "changed" => s7' # {}) /\ (Head(s6[a]) # "changed" => s7' = s7)
      BY <1>3, <2>5 DEF Schedule!Publish
    <3>2. s7' = {} => (Pending => Pending')
      BY <2>2, <2>3, <3>1 DEF Pending
    <3> QED BY <1>3, <2>2, <3>1, <3>2 DEF Schedule!Publish, ScheduleInv, Schedule!Enabled
  <2> QED BY <2>4, <2>5
<1>4. CASE Schedule!PublishFails(a)
  <2>1. /\ s6[a] \in Seq(ScheduleEvents) /\ s6[a] # <<>>
        /\ s6' = [s6 EXCEPT ![a] = Tail(s6[a])]
    BY <1>4 DEF Schedule!PublishFails, ScheduleInv
  <2>2. /\ s6' \in [Request -> Seq(ScheduleEvents)] /\ s6'[a] = Tail(s6[a])
        /\ \A b \in Request \ {a} : s6'[b] = s6[b]
    BY <2>1, ScheduleTail DEF ScheduleInv
  <2>3. Announces(s6[a]) => Head(s6[a]) = "changed" \/ Announces(s6'[a])
    BY <2>1, <2>2, ScheduleTail
  <2>4. /\ s3' = s3 /\ (Head(s6[a]) = "changed" => s7' # {})
        /\ Head(s6[a]) # "changed" => s7' = s7
    BY <1>4 DEF Schedule!PublishFails
  <2>5. s7' = {} => (Pending => Pending')
    BY <2>2, <2>3, <2>4 DEF Pending
  <2> QED BY <1>4, <2>2, <2>4, <2>5 DEF Schedule!PublishFails, ScheduleInv, Schedule!Enabled
<1> QED BY <1>1, <1>2, <1>3, <1>4, <1>5 DEF Schedule!Administration

\* Registering what a query of the enabled jobs returned leaves exactly that.
LEMMA ScheduleAligns ==
    ASSUME NEW s, NEW t
    PROVE  Schedule!Aligned(s, Schedule!Enabled(t)) = Schedule!Enabled(t)
BY DEF Schedule!Aligned, Schedule!Enabled

\* The steps of the scheduler's process.
LEMMA ScheduleProcess ==
    ASSUME ScheduleInv,
           \/ Schedule!Start \/ Schedule!Started \/ Schedule!Subscribe \/ Schedule!Disconnect
           \/ Schedule!Hear \/ Schedule!Reload \/ Schedule!ReloadFails \/ Schedule!HearRun
           \/ Schedule!Stop
    PROVE  ScheduleInv'
<1>1. CASE Schedule!Start
  BY <1>1 DEF Schedule!Start, Schedule!ReadJobs, ScheduleInv, Schedule!Enabled
<1>2. ASSUME Schedule!Started \/ Schedule!Reload PROVE ScheduleInv'
  <2>1. /\ s2' = Schedule!Aligned(s2, s5) /\ s5' = <<>> /\ s4' # "starting" /\ UNCHANGED <<s1, s3, s6, s7>>
        /\ s4 # "down" /\ (s4 = "starting" \/ s5 # <<>>)
        /\ s4' \in {"started", "subscribed"}
    BY <1>2 DEF Schedule!Started, Schedule!Reload, Schedule!Apply
  <2>2. s2' = [j \in Request |-> s2'[j]]
    BY <2>1 DEF Schedule!Aligned
  <2>3. s7' = {} => Pending' \/ s2' = Schedule!Enabled(s1)'
    <3>1. CASE s7 = {} /\ s5 = Schedule!Enabled(s1)
      BY <2>1, <3>1, ScheduleAligns DEF Schedule!Enabled
    <3>2. CASE Pending
      BY <2>1, <3>2 DEF Pending
    <3> QED BY <2>1, <3>1, <3>2 DEF ScheduleInv
  <2> QED BY <2>1, <2>2, <2>3 DEF ScheduleInv
<1>3. CASE Schedule!Subscribe
  BY <1>3 DEF Schedule!Subscribe, ScheduleInv, Pending, Schedule!Enabled
<1>4. CASE Schedule!Disconnect
  <2>1. s7' = {} => s7 = {} /\ ~Announces(s3)
    BY <1>4 DEF Schedule!Disconnect, Announces
  <2>2. s7' = {} /\ Pending => Pending'
    BY <1>4, <2>1 DEF Schedule!Disconnect, Pending
  <2>3. s4 = "subscribed" /\ s4' = "started" /\ s3' = <<>> /\ UNCHANGED <<s1, s2, s5, s6>>
    BY <1>4 DEF Schedule!Disconnect
  <2>4. s3' \in Seq(ScheduleEvents)
    BY <2>3
  <2> QED BY <2>1, <2>2, <2>3, <2>4 DEF ScheduleInv, Schedule!Enabled
<1>5. CASE Schedule!Hear
  BY <1>5, ScheduleTail DEF Schedule!Hear, Schedule!ReadJobs, ScheduleInv, Schedule!Enabled
<1>6. CASE Schedule!ReloadFails
  <2>1. s7' # {}
    BY <1>6 DEF Schedule!ReloadFails
  <2> QED BY <1>6, <2>1 DEF Schedule!ReloadFails, ScheduleInv
<1>7. CASE Schedule!HearRun
  <2>1. s3' \in Seq(ScheduleEvents) /\ (Announces(s3) => Announces(s3'))
    BY <1>7, ScheduleTail DEF Schedule!HearRun, ScheduleInv
  <2> QED BY <1>7, <2>1 DEF Schedule!HearRun, ScheduleInv, Pending, Schedule!Enabled
<1>8. CASE Schedule!Stop
  BY <1>8 DEF Schedule!Stop, Schedule!Nothing, ScheduleInv
<1> QED BY <1>1, <1>2, <1>3, <1>4, <1>5, <1>6, <1>7, <1>8

\* Every change of a job that was announced to a listening scheduler is in its schedule
\* once nothing is on its way: whatever committed between a query and its
\* registrations, or between the first query and the subscription (core/scheduler.py).
THEOREM SchedulesCatchUp == Spec => []ScheduleHolds
<1>1. part = "schedule" /\ Init => ScheduleInv
  <2>1. ASSUME part = "schedule", Init
        PROVE  /\ s2 = [j \in Request |-> "none"] /\ s3 = <<>> /\ s4 = "down"
               /\ s6 = [a \in Request |-> <<>>]
    BY <2>1 DEF Init, Schedule!Init, Schedule!Nothing, Schedule!None
  <2>2. ASSUME part = "schedule", Init PROVE ScheduleInv
    <3>1. s6 \in [Request -> Seq(ScheduleEvents)]
      <4>1. <<>> \in Seq(ScheduleEvents)
        OBVIOUS
      <4> QED BY <2>1, <2>2, <4>1
    <3>2. s2 = [j \in Request |-> s2[j]]
      BY <2>1, <2>2
    <3> QED BY <2>1, <2>2, <3>1, <3>2 DEF ScheduleInv
  <2> QED BY <2>2
<1>2. part = "schedule" /\ ScheduleInv /\ [Next]_vars => ScheduleInv' /\ (part = "schedule")'
  <2> SUFFICES ASSUME part = "schedule", ScheduleInv, [Next]_vars
               PROVE  ScheduleInv' /\ (part = "schedule")'
    OBVIOUS
  <2>1. [Schedule!Next]_Schedule!vars /\ (part = "schedule")'
    BY DEF Next, vars, from5, from7, from8, from9, from10, from13, from16, Schedule!vars
  <2>2. ASSUME NEW j \in Request, NEW g \in Trigger, Schedule!AiUpdateCron(j, g) PROVE ScheduleInv'
    <3>1. s7' # {}
      BY <2>2 DEF Schedule!AiUpdateCron
    <3> QED BY <2>2, <3>1 DEF Schedule!AiUpdateCron, ScheduleInv
  <2>3. CASE UNCHANGED Schedule!vars
    <3>1. UNCHANGED <<s1, s2, s3, s4, s5, s6, s7>>
      BY <2>3 DEF Schedule!vars
    <3>2. Pending => Pending'
      BY <3>1 DEF Pending
    <3>3. Schedule!Enabled(s1)' = Schedule!Enabled(s1)
      BY <3>1 DEF Schedule!Enabled
    <3>4. s2' = [j \in Request |-> s2'[j]]
      BY <3>1 DEF ScheduleInv
    <3>5. /\ s3' \in Seq(ScheduleEvents) /\ s6' \in [Request -> Seq(ScheduleEvents)]
          /\ s4' \in {"down", "starting", "started", "subscribed"}
      BY <3>1 DEF ScheduleInv
    <3>6. s4' # "down" /\ s7' = {} =>
            \/ Pending' \/ s5' = Schedule!Enabled(s1)'
            \/ s4' # "starting" /\ s5' = <<>> /\ s2' = Schedule!Enabled(s1)'
      BY <3>1, <3>2, <3>3 DEF ScheduleInv
    <3> QED BY <2>1, <3>4, <3>5, <3>6 DEF ScheduleInv
  <2> QED BY <2>1, <2>2, <2>3, ScheduleAdministration, ScheduleProcess DEF Schedule!Next
<1>3. (part = "schedule" => ScheduleInv) => ScheduleHolds
  <2> SUFFICES ASSUME ScheduleInv, Schedule!Quiet, s7 = {} PROVE s2 = Schedule!Enabled(s1)
    BY DEF ScheduleHolds, Schedule!ScheduleCatchesUp
  <2>1. ~Pending
    BY DEF Schedule!Quiet, Pending, Announces
  <2>2. CASE s5 = Schedule!Enabled(s1)
    <3>1. DOMAIN Schedule!Enabled(s1) = Request /\ s5 = <<>>
      BY DEF Schedule!Enabled, Schedule!Quiet
    <3>2. Request = {}
      BY <2>2, <3>1
    <3> QED BY <3>2 DEF ScheduleInv, Schedule!Enabled
  <2> QED BY <2>1, <2>2 DEF ScheduleInv, Schedule!Quiet
<1>4. ~(part = "schedule") /\ [Next]_vars => ~(part = "schedule")'
  BY PartStays
<1> QED BY <1>1, <1>2, <1>3, <1>4, PTL DEF Spec
-----------------------------------------------------------------------------
(* Stored files *)

FilesTypes ==
    /\ s1 \in [Export -> {"none", "success"}]
    /\ s4 \in [Export -> {"none", "live", "retired"}]
    /\ s5 \in [Export -> BOOLEAN] /\ s6 \in [Export -> BOOLEAN]
    /\ s7 \in [Export -> {"idle", "proposed", "running", "writing", "stored", "marked", "done", "failed"}]
    /\ s8 \in [Export -> {"none", "selected", "hidden", "bytes", "missing"}]
    /\ s9 \in [Request -> [at : {"idle", "delete", "drain", "retire"},
                           todo : SUBSET Export, own : SUBSET Export]]

\* Only a request that has ended has a task that succeeded, whose file is whole then,
\* or a reader; what the console's request still has to commit is written.
ExportInv(e) ==
    /\ s1[e] = "success" => s7[e] = "done" /\ Files!Readable(e)
    /\ s7[e] \in {"stored", "marked"} /\ e \notin AiExport => s5[e]
    /\ s8[e] # "none" => s7[e] = "done"
    /\ s8[e] = "missing" => s1[e] = "none"

\* Retention is about artifacts of ended requests, and touches one when its task is gone.
RetentionInv(w) ==
    /\ \A e \in s9[w].todo \cup s9[w].own : e \in AiExport /\ s7[e] = "done"
    /\ s9[w].at = "retire" => \A e \in s9[w].own : s1[e] = "none"

\* Files are on disk before their rows are listed, and leave it only by a deletion.
UploadInv ==
    /\ s16 \in [Upload -> {"none", "image", "attachment", "bytes", "missing", "refused"}]
    /\ s11 \ s15 \subseteq s12 /\ s13 \subseteq s12 /\ s13 \cap s11 = {} /\ s14 \subseteq s11
    /\ \A f \in Upload : /\ s16[f] \in {"image", "attachment"} => f \in s12 \cup s15
                         /\ s16[f] = "missing" => f \in s15

FilesInv ==
    /\ FilesTypes
    /\ \A e \in Export : ExportInv(e)
    /\ \A w \in Request : RetentionInv(w)
    /\ UploadInv

\* The steps of exports leave the uploads alone, and the other way round.
LEMMA FilesApart ==
    ASSUME FilesInv
    PROVE  /\ UNCHANGED Files!uploadVars => UploadInv'
           /\ UNCHANGED <<s1, s4, s5, s6, s7, s8, s9>> =>
                /\ FilesTypes' /\ \A e \in Export : ExportInv(e)'
                /\ \A w \in Request : RetentionInv(w)'
  BY DEF FilesInv, UploadInv, Files!uploadVars, FilesTypes, ExportInv, RetentionInv,
         Files!Readable, Files!Inspectable

\* A request that exports has no task and no reader yet, and retention has nothing of it.
LEMMA FilesJob ==
    ASSUME FilesInv, NEW e \in Export, s7[e] # "done", FilesTypes', UNCHANGED <<s8, s9, Files!uploadVars>>,
           \A d \in Export \ {e} : /\ s1'[d] = s1[d] /\ s4'[d] = s4[d] /\ s5'[d] = s5[d]
                                   /\ s6'[d] = s6[d] /\ s7'[d] = s7[d],
           s1'[e] = "success" => s7'[e] = "done" /\ Files!Readable(e)',
           s7'[e] \in {"stored", "marked"} /\ e \notin AiExport => s5'[e]
    PROVE  FilesInv'
<1>1. s8[e] = "none" /\ s8' = s8 /\ s9' = s9
  BY DEF FilesInv, ExportInv
<1>2. ExportInv(e)'
  BY <1>1 DEF ExportInv
<1>3. \A d \in Export \ {e} : ExportInv(d)'
  BY <1>1 DEF FilesInv, ExportInv, Files!Readable, Files!Inspectable
<1>4. \A w \in Request : RetentionInv(w)'
  <2>1. ASSUME NEW w \in Request PROVE RetentionInv(w)'
    <3>1. RetentionInv(w) /\ s9[w].todo \cup s9[w].own \subseteq Export
      BY DEF FilesInv, FilesTypes
    <3>2. e \notin s9[w].todo \cup s9[w].own
      BY <3>1 DEF RetentionInv
    <3> QED BY <1>1, <3>1, <3>2 DEF RetentionInv
  <2> QED BY <2>1
<1> QED BY <1>2, <1>3, <1>4, FilesApart DEF FilesInv

\* The steps of a request that exports.
LEMMA FilesExport ==
    ASSUME FilesInv, NEW e \in Export,
           \/ Files!ProposeExport(e) \/ Files!CreateTask(e) \/ Files!QueryFails(e)
           \/ Files!SaveFile(e) \/ Files!MarkTask(e) \/ Files!OpenWriter(e)
           \/ Files!PublishManifest(e) \/ Files!PublishPayload(e)
           \/ Files!CommitRequest(e) \/ Files!CompleteExport(e)
    PROVE  FilesInv'
<1>1. FilesTypes /\ ExportInv(e) /\ s1[e] \in {"none", "success"}
  BY DEF FilesInv, FilesTypes
<1>2. CASE Files!ProposeExport(e) \/ Files!CreateTask(e) \/ Files!QueryFails(e) \/ Files!MarkTask(e)
  <2>1. /\ s7[e] # "done" /\ UNCHANGED <<s1, s4, s5, s6, s8, s9, Files!uploadVars>>
        /\ \E p \in {"proposed", "failed", "running", "marked"} :
             s7' = [s7 EXCEPT ![e] = p] /\ (p = "marked" => s7[e] = "stored")
    BY <1>2 DEF Files!ProposeExport, Files!CreateTask, Files!QueryFails, Files!MarkTask, Files!uploadVars
  <2>2. FilesTypes'
    BY <1>1, <2>1 DEF FilesTypes
  <2> QED BY <1>1, <2>1, <2>2, FilesJob DEF FilesTypes, ExportInv
<1>3. CASE Files!SaveFile(e)
  <2>1. /\ s7[e] # "done" /\ UNCHANGED <<s1, s4, s6, s8, s9, Files!uploadVars>>
        /\ \/ s7' = [s7 EXCEPT ![e] = "stored"] /\ s5' = [s5 EXCEPT ![e] = TRUE]
           \/ s7' = [s7 EXCEPT ![e] = "failed"] /\ s5' = s5
    BY <1>3 DEF Files!SaveFile
  <2>2. FilesTypes'
    BY <1>1, <2>1 DEF FilesTypes
  <2> QED BY <1>1, <2>1, <2>2, FilesJob DEF FilesTypes, ExportInv
<1>4. CASE Files!OpenWriter(e) \/ Files!PublishManifest(e) \/ Files!PublishPayload(e)
  <2>1. /\ s7[e] # "done" /\ e \in Export /\ UNCHANGED <<s1, s8, s9, Files!uploadVars>>
        /\ s4' = s4 \/ \E m \in {"none", "live"} : s4' = [s4 EXCEPT ![e] = m]
        /\ s5' = s5 \/ \E p \in BOOLEAN : s5' = [s5 EXCEPT ![e] = p]
        /\ s6' = s6 \/ \E l \in BOOLEAN : s6' = [s6 EXCEPT ![e] = l]
        /\ \/ s7' = s7 /\ s7[e] = "writing"
           \/ \E j \in {"writing", "stored", "failed"} : s7' = [s7 EXCEPT ![e] = j]
    <3>1. CASE Files!OpenWriter(e)
      BY <3>1 DEF Files!OpenWriter
    <3>2. CASE Files!PublishManifest(e)
      BY <3>2 DEF Files!PublishManifest
    <3>3. CASE Files!PublishPayload(e)
      BY <3>3 DEF Files!PublishPayload
    <3> QED BY <1>4, <3>1, <3>2, <3>3
  <2>2. /\ s1' = s1 /\ s4' \in [Export -> {"none", "live", "retired"}]
        /\ s5' \in [Export -> BOOLEAN] /\ s6' \in [Export -> BOOLEAN]
        /\ s8' = s8 /\ s9' = s9
    BY <1>1, <2>1 DEF FilesTypes
  <2>3. s7' \in [Export -> {"idle", "proposed", "running", "writing", "stored", "marked", "done", "failed"}]
    BY <1>1, <2>1 DEF FilesTypes
  <2>4. FilesTypes'
    BY <1>1, <2>2, <2>3 DEF FilesTypes
  <2>5. \A d \in Export \ {e} : s4'[d] = s4[d] /\ s5'[d] = s5[d] /\ s6'[d] = s6[d] /\ s7'[d] = s7[d]
    BY <1>1, <2>1 DEF FilesTypes
  <2>6. s7'[e] = "stored" => s5'[e]
    <3>1. CASE Files!OpenWriter(e)
      BY <1>1, <3>1 DEF FilesTypes, Files!OpenWriter
    <3>2. CASE Files!PublishManifest(e)
      BY <1>1, <3>2 DEF FilesTypes, Files!PublishManifest
    <3>3. CASE Files!PublishPayload(e)
      <4>1. PICK p \in BOOLEAN, ok \in BOOLEAN :
              /\ ok => p
              /\ s5' = [s5 EXCEPT ![e] = p]
              /\ s7' = [s7 EXCEPT ![e] = IF ok THEN "stored" ELSE "failed"]
        BY <3>3 DEF Files!PublishPayload
      <4> QED BY <1>1, <4>1 DEF FilesTypes
    <3> QED BY <1>4, <3>1, <3>2, <3>3
  <2>7. s7'[e] # "marked"
    BY <1>1, <2>1 DEF FilesTypes
  <2> QED BY <1>1, <2>1, <2>4, <2>5, <2>6, <2>7, FilesJob DEF ExportInv
<1>5. CASE Files!CommitRequest(e) \/ Files!CompleteExport(e)
  <2>1. /\ s7[e] = "marked" /\ UNCHANGED <<s4, s5, s6, s8, s9, Files!uploadVars>>
        /\ \/ /\ s1' = [s1 EXCEPT ![e] = "success"] /\ s7' = [s7 EXCEPT ![e] = "done"]
              /\ IF e \in AiExport THEN Files!Inspectable(e) ELSE TRUE
           \/ s7' = [s7 EXCEPT ![e] = "failed"] /\ s1' = s1
    BY <1>5 DEF Files!CommitRequest, Files!CompleteExport, Files!Verified
  <2>2. FilesTypes'
    BY <1>1, <2>1 DEF FilesTypes
  <2>3. s1'[e] = "success" => s7'[e] = "done" /\ Files!Readable(e)'
    BY <1>1, <2>1 DEF FilesTypes, ExportInv, Files!Readable, Files!Inspectable
  <2> QED BY <1>1, <2>1, <2>2, <2>3, FilesJob DEF FilesTypes
<1> QED BY <1>2, <1>3, <1>4, <1>5

\* Readers, and time, change no file.
LEMMA FilesReader ==
    ASSUME FilesInv, NEW e \in Export,
           \/ Files!Age(e) \/ Files!AskDownload(e) \/ Files!AskByLink(e) \/ Files!AnswerDownload(e)
    PROVE  FilesInv'
<1>1. /\ FilesTypes /\ UNCHANGED <<s1, s4, s5, s6, s7, s9, Files!uploadVars>>
      /\ \/ s8' = s8
         \/ /\ s1[e] = "success" \/ s8[e] = "selected"
            /\ \E p \in {"selected", "hidden", "bytes", "missing"} :
                 s8' = [s8 EXCEPT ![e] = p] /\ (p = "missing" => ~Files!Readable(e))
  <2>1. CASE Files!Age(e)
    BY <2>1 DEF FilesInv, Files!Age
  <2>2. CASE Files!AskDownload(e)
    BY <2>2 DEF FilesInv, Files!AskDownload, Files!exportVars
  <2>3. CASE Files!AskByLink(e)
    BY <2>3 DEF FilesInv, Files!AskByLink, Files!exportVars
  <2>4. CASE Files!AnswerDownload(e)
    BY <2>4 DEF FilesInv, Files!AnswerDownload, Files!exportVars
  <2> QED BY <2>1, <2>2, <2>3, <2>4
<1>2. FilesTypes'
  BY <1>1 DEF FilesTypes
<1>3. ASSUME NEW d \in Export PROVE ExportInv(d)'
  <2>1. s1[d] \in {"none", "success"} /\ ExportInv(d)
    BY DEF FilesInv, FilesTypes
  <2> QED BY <1>1, <2>1 DEF FilesTypes, ExportInv, Files!Readable, Files!Inspectable
<1>4. \A w \in Request : RetentionInv(w)'
  BY <1>1 DEF FilesInv, RetentionInv
<1> QED BY <1>1, <1>2, <1>3, <1>4, FilesApart DEF FilesInv

\* A retention run that changes no task and no file, or only its own artifact, whose
\* task is gone.
LEMMA FilesPass ==
    ASSUME FilesInv, NEW w \in Request, FilesTypes', UNCHANGED <<s7, s8, Files!uploadVars>>,
           \A v \in Request \ {w} : s9'[v] = s9[v],
           \A e \in Export : s1'[e] = s1[e] \/ s1'[e] = "none",
           \A e \in Export : s1'[e] = "success" => /\ s4'[e] = s4[e] /\ s5'[e] = s5[e] /\ s6'[e] = s6[e],
           \A e \in Export \ AiExport : s5'[e] = s5[e],
           RetentionInv(w)'
    PROVE  FilesInv'
<1>1. s7' = s7 /\ s8' = s8
  OBVIOUS
<1>2. ASSUME NEW e \in Export PROVE ExportInv(e)'
  <2>1. ExportInv(e)
    BY DEF FilesInv
  <2> QED BY <1>1, <2>1 DEF ExportInv, Files!Readable, Files!Inspectable
<1>3. ASSUME NEW v \in Request PROVE RetentionInv(v)'
  <2>1. RetentionInv(v) /\ s9[v].own \subseteq Export
    BY DEF FilesInv, FilesTypes
  <2>2. CASE v # w
    BY <1>1, <2>1, <2>2 DEF RetentionInv
  <2> QED BY <2>2
<1> QED BY <1>2, <1>3, FilesApart DEF FilesInv

\* The steps of a retention run.
LEMMA FilesRetention ==
    ASSUME FilesInv, NEW w \in Request,
           \/ Files!ScanTasks(w) \/ Files!CommitDelete(w) \/ Files!EndPass(w)
           \/ \E e \in Export : \/ Files!DeleteTask(w, e) \/ Files!OpenCleanup(w, e)
                                \/ Files!RetireManifest(w, e) \/ Files!UnlinkPayload(w, e)
    PROVE  FilesInv'
<1>1. /\ FilesTypes /\ RetentionInv(w) /\ s9 \in [Request -> [at : {"idle", "delete", "drain", "retire"},
                           todo : SUBSET Export, own : SUBSET Export]]
      /\ s9[w].todo \subseteq Export /\ s9[w].own \subseteq Export
      /\ \A e \in Export : s1[e] = "success" => s7[e] = "done"
  BY DEF FilesInv, FilesTypes, ExportInv
<1>2. CASE Files!ScanTasks(w)
  <2>1. UNCHANGED <<s1, s4, s5, s6, s7, s8, Files!uploadVars>>
    BY <1>2 DEF Files!ScanTasks, Files!exportVars
  <2>2. PICK found \in SUBSET Export :
          /\ \A e \in found : s1[e] = "success" /\ e \in AiExport
          /\ s9' = [s9 EXCEPT ![w] = [at |-> "delete", todo |-> found, own |-> {}]]
    BY <1>2 DEF Files!ScanTasks, Files!Cleanable
  <2>3. FilesTypes'
    BY <1>1, <2>1, <2>2 DEF FilesTypes
  <2>4. RetentionInv(w)'
    BY <1>1, <2>1, <2>2 DEF RetentionInv
  <2>5. \A v \in Request \ {w} : s9'[v] = s9[v]
    BY <1>1, <2>2
  <2> QED BY <2>1, <2>3, <2>4, <2>5, FilesPass
<1>3. CASE Files!CommitDelete(w)
  <2>1. UNCHANGED <<s4, s5, s6, s7, s8, Files!uploadVars>>
    BY <1>3 DEF Files!CommitDelete
  <2>2. PICK done \in BOOLEAN, heard \in BOOLEAN :
          /\ s1' = [e \in Export |-> IF done /\ e \in s9[w].own THEN "none" ELSE s1[e]]
          /\ s9' = [s9 EXCEPT ![w] =
                IF heard THEN [at |-> "drain", todo |-> s9[w].own, own |-> {}] ELSE Files!Idle]
    BY <1>3 DEF Files!CommitDelete
  <2>3. FilesTypes'
    <3>1. s1' \in [Export -> {"none", "success"}]
      BY <1>1, <2>2 DEF FilesTypes
    <3>2. CASE heard
      BY <1>1, <2>1, <2>2, <3>1, <3>2 DEF FilesTypes
    <3>3. CASE ~heard
      BY <1>1, <2>1, <2>2, <3>1, <3>3 DEF FilesTypes, Files!Idle
    <3> QED BY <3>2, <3>3
  <2>4. RetentionInv(w)'
    BY <1>1, <2>1, <2>2 DEF RetentionInv, Files!Idle
  <2>5. \A v \in Request \ {w} : s9'[v] = s9[v]
    BY <1>1, <2>2
  <2>6. \A e \in Export : s1'[e] = s1[e] \/ s1'[e] = "none"
    BY <2>2
  <2> QED BY <2>1, <2>3, <2>4, <2>5, <2>6, FilesPass
<1>4. CASE Files!EndPass(w)
  <2>1. UNCHANGED <<s1, s4, s5, s6, s7, s8, Files!uploadVars>> /\ s9' = [s9 EXCEPT ![w] = Files!Idle]
    BY <1>4 DEF Files!EndPass, Files!exportVars
  <2>2. FilesTypes' /\ RetentionInv(w)' /\ \A v \in Request \ {w} : s9'[v] = s9[v]
    BY <1>1, <2>1 DEF FilesTypes, RetentionInv, Files!Idle
  <2> QED BY <2>1, <2>2, FilesPass
<1>5. ASSUME NEW e \in Export, Files!DeleteTask(w, e) PROVE FilesInv'
  <2>1. UNCHANGED <<s1, s4, s5, s6, s7, s8, Files!uploadVars>>
    BY <1>5 DEF Files!DeleteTask, Files!exportVars
  <2>2. /\ e \in s9[w].todo /\ s9[w].at = "delete"
        /\ s9' = [s9 EXCEPT ![w].todo = @ \ {e},
                            ![w].own = IF Files!StillPlanned(e) THEN @ \cup {e} ELSE @]
    BY <1>5 DEF Files!DeleteTask
  <2>3. FilesTypes' /\ \A v \in Request \ {w} : s9'[v] = s9[v]
    <3>1. PICK own \in SUBSET Export :
            s9' = [s9 EXCEPT ![w].todo = @ \ {e}, ![w].own = own]
      <4>1. CASE Files!StillPlanned(e)
        <5>1. s9[w].own \cup {e} \in SUBSET Export
          BY <1>1
        <5>2. s9' = [s9 EXCEPT ![w].todo = @ \ {e}, ![w].own = s9[w].own \cup {e}]
          BY <1>1, <2>2, <4>1
        <5> QED BY <5>1, <5>2
      <4>2. CASE ~Files!StillPlanned(e)
        <5>1. s9[w].own \in SUBSET Export
          BY <1>1
        <5>2. s9' = [s9 EXCEPT ![w].todo = @ \ {e}, ![w].own = s9[w].own]
          BY <1>1, <2>2, <4>2
        <5> QED BY <5>1, <5>2
      <4> QED BY <4>1, <4>2
    <3>2. s9' \in [Request -> [at : {"idle", "delete", "drain", "retire"},
                              todo : SUBSET Export, own : SUBSET Export]]
      BY <1>1, <3>1
    <3> QED BY <1>1, <2>1, <3>1, <3>2 DEF FilesTypes
  <2>4. /\ s9'[w].todo \cup s9'[w].own \subseteq s9[w].todo \cup s9[w].own
        /\ s9'[w].at = "delete"
    BY <1>1, <2>2
  <2>5. RetentionInv(w)'
    BY <1>1, <2>1, <2>4 DEF RetentionInv
  <2> QED BY <2>1, <2>3, <2>5, FilesPass
<1>6. ASSUME NEW e \in Export, Files!OpenCleanup(w, e) PROVE FilesInv'
  <2>1. UNCHANGED <<s1, s4, s5, s7, s8, Files!uploadVars>> /\ e \in s9[w].todo
    BY <1>6 DEF Files!OpenCleanup
  <2>2. CASE s1[e] = "none" /\ s6' = [s6 EXCEPT ![e] = TRUE]
             /\ s9' = [s9 EXCEPT ![w].at = "retire", ![w].own = {e}]
    <3>1. FilesTypes' /\ \A v \in Request \ {w} : s9'[v] = s9[v]
      <4>1. PICK own \in SUBSET Export : s9' = [s9 EXCEPT ![w].at = "retire", ![w].own = own]
        BY <2>2
      <4>2. s9' \in [Request -> [at : {"idle", "delete", "drain", "retire"},
                                todo : SUBSET Export, own : SUBSET Export]]
        <5>1. [s9[w] EXCEPT !.at = "retire", !.own = own]
                \in [at : {"idle", "delete", "drain", "retire"}, todo : SUBSET Export, own : SUBSET Export]
          BY <1>1
        <5>2. s9' = [s9 EXCEPT ![w] = [s9[w] EXCEPT !.at = "retire", !.own = own]]
          BY <1>1, <4>1
        <5> QED BY <1>1, <5>1, <5>2
      <4> QED BY <1>1, <2>1, <2>2, <4>2 DEF FilesTypes
    <3>2. s9'[w].todo = s9[w].todo /\ s9'[w].own = {e} /\ \A d \in Export \ {e} : s6'[d] = s6[d]
      BY <1>1, <2>2 DEF FilesTypes
    <3>3. RetentionInv(w)'
      BY <1>1, <2>1, <2>2, <3>2 DEF RetentionInv
    <3>4. \A d \in Export : s1'[d] = "success" => s6'[d] = s6[d]
      BY <2>1, <2>2, <3>2
    <3> QED BY <2>1, <3>1, <3>3, <3>4, FilesPass
  <2>3. CASE s6' = s6 /\ s9' = [s9 EXCEPT ![w].todo = @ \ {e}] /\ s9[w].at = "drain"
    <3>1. FilesTypes' /\ \A v \in Request \ {w} : s9'[v] = s9[v]
      BY <1>1, <2>1, <2>3 DEF FilesTypes
    <3>2. /\ s9'[w].todo \subseteq s9[w].todo /\ s9'[w].own = s9[w].own /\ s9'[w].at = "drain"
      BY <1>1, <2>3
    <3>3. RetentionInv(w)'
      BY <1>1, <2>1, <3>2 DEF RetentionInv
    <3> QED BY <2>1, <2>3, <3>1, <3>3, FilesPass
  <2> QED BY <1>6, <2>2, <2>3 DEF Files!OpenCleanup
<1>7. ASSUME NEW e \in Export, Files!RetireManifest(w, e) PROVE FilesInv'
  <2>1. /\ UNCHANGED <<s1, s5, s6, s7, s8, s9, Files!uploadVars>>
        /\ s9[w].at = "retire" /\ e \in s9[w].own /\ s4' = [s4 EXCEPT ![e] = "retired"]
    BY <1>7 DEF Files!RetireManifest
  <2>2. FilesTypes'
    BY <1>1, <2>1 DEF FilesTypes
  <2>3. RetentionInv(w)' /\ s1[e] = "none"
    BY <1>1, <2>1 DEF RetentionInv
  <2>4. \A d \in Export : s1'[d] = "success" => s4'[d] = s4[d]
    BY <1>1, <2>1, <2>3 DEF FilesTypes
  <2> QED BY <2>1, <2>2, <2>3, <2>4, FilesPass
<1>8. ASSUME NEW e \in Export, Files!UnlinkPayload(w, e) PROVE FilesInv'
  <2>1. /\ UNCHANGED <<s1, s4, s7, s8, Files!uploadVars>>
        /\ s9[w].at = "retire" /\ e \in s9[w].own
        /\ s5' = [s5 EXCEPT ![e] = FALSE] \/ s5' = s5
        /\ s6' = [s6 EXCEPT ![e] = FALSE]
        /\ s9' = [s9 EXCEPT ![w].at = "drain", ![w].todo = @ \ {e}, ![w].own = {}]
    BY <1>8 DEF Files!UnlinkPayload
  <2>2. FilesTypes' /\ \A v \in Request \ {w} : s9'[v] = s9[v]
    BY <1>1, <2>1 DEF FilesTypes
  <2>3. s1[e] = "none" /\ e \in AiExport
    BY <1>1, <2>1 DEF RetentionInv
  <2>4. s9'[w].todo \subseteq s9[w].todo /\ s9'[w].own = {} /\ s9'[w].at = "drain"
    BY <1>1, <2>1
  <2>5. RetentionInv(w)'
    BY <1>1, <2>1, <2>4 DEF RetentionInv
  <2>6. \A d \in Export \ {e} : s5'[d] = s5[d] /\ s6'[d] = s6[d]
    BY <1>1, <2>1 DEF FilesTypes
  <2> QED BY <2>1, <2>2, <2>3, <2>5, <2>6, FilesPass
<1> QED BY <1>2, <1>3, <1>4, <1>5, <1>6, <1>7, <1>8

\* The steps of uploads, their deletion and their readers.
LEMMA FilesUpload ==
    ASSUME FilesInv,
           \/ \E f \in Upload : \/ Files!WriteUpload(f) \/ Files!UnlinkUpload(f)
                                \/ Files!AskImage(f) \/ Files!OpenImage(f)
                                \/ Files!AskAttachment(f) \/ Files!ReadAttachment(f)
           \/ Files!RefuseUpload \/ Files!CommitUpload \/ Files!EndRemoval
           \/ \E F \in SUBSET Upload : Files!StartRemoval(F)
    PROVE  FilesInv'
<1>1. UNCHANGED <<s1, s4, s5, s6, s7, s8, s9>>
  BY DEF Files!WriteUpload, Files!UnlinkUpload, Files!AskImage, Files!OpenImage, Files!AskAttachment,
         Files!ReadAttachment, Files!RefuseUpload, Files!CommitUpload, Files!EndRemoval,
         Files!StartRemoval, Files!exportVars
<1>2. UploadInv
  BY DEF FilesInv
<1>3. ASSUME NEW f \in Upload PROVE Files!WriteUpload(f) \/ Files!UnlinkUpload(f) => UploadInv'
  <2>1. CASE Files!WriteUpload(f)
    BY <1>2, <2>1 DEF UploadInv, Files!WriteUpload
  <2>2. CASE Files!UnlinkUpload(f)
    BY <1>2, <2>2 DEF UploadInv, Files!UnlinkUpload
  <2> QED BY <2>1, <2>2
<1>4. ASSUME NEW f \in Upload,
             Files!AskImage(f) \/ Files!OpenImage(f) \/ Files!AskAttachment(f) \/ Files!ReadAttachment(f)
      PROVE  UploadInv'
  <2>1. /\ UNCHANGED <<s11, s12, s13, s14, s15>>
        /\ \E p \in {"image", "attachment", "bytes", "missing", "refused"} :
             /\ s16' = [s16 EXCEPT ![f] = p]
             /\ p \in {"image", "attachment"} => f \in s11
             /\ p = "missing" => s16[f] \in {"image", "attachment"} /\ f \notin s12
    <3>1. CASE Files!AskImage(f)
      BY <3>1 DEF Files!AskImage
    <3>2. CASE Files!OpenImage(f)
      BY <3>2 DEF Files!OpenImage
    <3>3. CASE Files!AskAttachment(f)
      BY <3>3 DEF Files!AskAttachment
    <3>4. CASE Files!ReadAttachment(f)
      BY <3>4 DEF Files!ReadAttachment
    <3> QED BY <1>4, <3>1, <3>2, <3>3, <3>4
  <2> QED BY <1>2, <2>1 DEF UploadInv
<1>5. ASSUME Files!RefuseUpload \/ Files!CommitUpload PROVE UploadInv'
  <2>1. CASE Files!RefuseUpload
    BY <1>2, <2>1 DEF UploadInv, Files!RefuseUpload
  <2>2. CASE Files!CommitUpload
    BY <1>2, <2>2 DEF UploadInv, Files!CommitUpload
  <2> QED BY <1>5, <2>1, <2>2
<1>6. ASSUME Files!EndRemoval \/ \E F \in SUBSET Upload : Files!StartRemoval(F) PROVE UploadInv'
  <2>1. CASE Files!EndRemoval
    BY <1>2, <2>1 DEF UploadInv, Files!EndRemoval
  <2>2. CASE \E F \in SUBSET Upload : Files!StartRemoval(F)
    BY <1>2, <2>2 DEF UploadInv, Files!StartRemoval
  <2> QED BY <1>6, <2>1, <2>2
<1>7. UploadInv' => FilesInv'
  BY <1>1, FilesApart DEF FilesInv
<1> QED BY <1>3, <1>4, <1>5, <1>6, <1>7

\* Nothing is stored at first, and a process that ends takes only what is not committed.
LEMMA FilesEnds ==
    /\ Files!Init => FilesInv
    /\ FilesInv /\ Files!Crash => FilesInv'
<1>1. ASSUME Files!Init PROVE FilesInv
  BY <1>1 DEF Files!Init, FilesInv, FilesTypes, ExportInv, RetentionInv, UploadInv, Files!Idle
<1>2. ASSUME FilesInv, Files!Crash PROVE FilesInv'
  <2>1. FilesTypes /\ UNCHANGED <<s1, s4, s5, s6, s8, s11, s12, s15, s16>>
        /\ s9' = [w \in Request |-> Files!Idle] /\ s13' = {} /\ s14' = {}
        /\ s7' = [e \in Export |-> IF s7[e] \in {"running", "writing", "stored", "marked"}
                                   THEN "failed" ELSE s7[e]]
    BY <1>2 DEF FilesInv, Files!Crash
  <2>2. FilesTypes'
    BY <2>1 DEF FilesTypes, Files!Idle
  <2>3. \A w \in Request : RetentionInv(w)'
    BY <2>1 DEF RetentionInv, Files!Idle
  <2>4. ASSUME NEW e \in Export PROVE ExportInv(e)'
    BY <1>2, <2>1 DEF FilesInv, FilesTypes, ExportInv, Files!Readable, Files!Inspectable
  <2>5. UploadInv'
    BY <1>2, <2>1 DEF FilesInv, UploadInv
  <2> QED BY <2>2, <2>3, <2>4, <2>5 DEF FilesInv
<1> QED BY <1>1, <1>2

\* Every committed export has its workbook, whole and readable, and every listed upload
\* its bytes, unless a deletion has begun, whatever fails or ends half-way
\* (user_export_service.py, core/file_storage.py, file_service.py).
THEOREM FilesAreKept == Spec => []FilesHold
<1>1. part = "files" /\ Init => FilesInv
  BY FilesEnds DEF Init
<1>2. part = "files" /\ FilesInv /\ [Next]_vars => FilesInv' /\ (part = "files")'
  <2> SUFFICES ASSUME part = "files", FilesInv, [Next]_vars PROVE FilesInv' /\ (part = "files")'
    OBVIOUS
  <2>1. [Files!Next]_Files!vars /\ (part = "files")'
    BY DEF Next, vars, from5, from7, from8, from9, from10, from13, from16, Files!vars,
           Files!exportVars, Files!uploadVars
  <2>2. ASSUME UNCHANGED Files!vars PROVE FilesInv'
    BY <2>2, FilesApart DEF FilesInv, Files!vars, Files!exportVars
  <2> QED BY <2>1, <2>2, FilesExport, FilesReader, FilesRetention, FilesUpload, FilesEnds
          DEF Files!Next
<1>3. (part = "files" => FilesInv) => FilesHold
  BY DEF FilesHold, FilesInv, ExportInv, UploadInv, Files!RowsHaveFiles
<1>4. ~(part = "files") /\ [Next]_vars => ~(part = "files")'
  BY PartStays
<1> QED BY <1>1, <1>2, <1>3, <1>4, PTL DEF Spec
-----------------------------------------------------------------------------
(* Results and their projections *)

Turns == 1..MaxTurns
Told == [subjects : SUBSET Subject, scopes : SUBSET {1, 2}]
Lines == [known : BOOLEAN, tools : SUBSET Projection!Tool, subjects : SUBSET Subject,
          scope : {0, 1, 2}, deps : SUBSET Turns]
Runs == [at : {"idle", "loaded", "open", "ended"}, deps : SUBSET Turns, told : Told, tells : Told,
         tools : SUBSET Projection!Tool, subjects : SUBSET Subject, bound : BOOLEAN,
         cards : SUBSET Projection!Tool, may : SUBSET Projection!Tool, sees : SUBSET Subject,
         scope : {0, 1, 2}]
Messages == [there : BOOLEAN, text : BOOLEAN, cards : SUBSET Projection!Tool, line : Lines, tells : Told]
Actions == [st : {"none", "pending", "unproved", "done", "void"}, subjects : SUBSET Subject,
            deps : SUBSET Turns]

ProjectionTypes ==
    /\ s1 \in [sees : SUBSET Subject, tools : SUBSET Projection!Tool, scope : {1, 2}]
    /\ s2 \in SUBSET Subject
    /\ s4 \in [Turns -> Runs] /\ s5 \in [Turns -> Messages] /\ s6 \in [Turns -> Actions]
    /\ s7 \in [line : Lines, tells : Told]

\* What earlier answers told.
ToldSubject(m, x, ds) == \E d \in ds : x \in m[d].tells.subjects
ToldScope(m, x, ds) == \E d \in ds : x \in m[d].tells.scopes

\* A lineage covers what it is the lineage of: a row or scope is named by it, or came
\* with an earlier answer it depends on.
Covers(m, line, tells) ==
    /\ \A x \in tells.subjects : x \in line.subjects \/ ToldSubject(m, x, line.deps)
    /\ \A x \in tells.scopes : x = line.scope \/ ToldScope(m, x, line.deps)

\* A turn depends on earlier turns only, and loads the history once they have begun.
RunInv(t) ==
    /\ s4[t].at # "idle" => \A u \in Turns : u < t => s4[u].at # "idle"
    /\ \A d \in s4[t].deps : d < t
    /\ \A x \in s4[t].told.subjects : ToldSubject(s5, x, s4[t].deps)
    /\ \A x \in s4[t].told.scopes : ToldScope(s5, x, s4[t].deps)
    /\ \A x \in s4[t].tells.subjects : x \in s4[t].subjects \/ ToldSubject(s5, x, s4[t].deps)
    /\ \A x \in s4[t].tells.scopes : (s4[t].bound /\ x = s4[t].scope) \/ ToldScope(s5, x, s4[t].deps)
    /\ s4[t].at # "open" => ~s4[t].bound
    /\ s4[t].at = "open" => s4[t].scope # 0

MsgInv(t) ==
    /\ s5[t].there => s5[t].line.known /\ s4[t].at \in {"open", "ended"}
    /\ ~s5[t].there => s5[t] = Projection!NoMsg
    /\ Covers(s5, s5[t].line, s5[t].tells)
    /\ \A d \in s5[t].line.deps : d < t
    /\ s4[t].at = "open" => s5[t].line.scope = 0

ActInv(t) ==
    /\ \A d \in s6[t].deps : d < t
    /\ s6[t].st # "none" => s4[t].at \in {"open", "ended"}

ProjectionInv ==
    /\ ProjectionTypes
    /\ \A t \in Turns : RunInv(t) /\ MsgInv(t) /\ ActInv(t)
    /\ Covers(s5, s7.line, s7.tells)

\* Induction over the numbers, as the existence of a least one: the library's theorem
\* takes an operator, this form of it a set.
LEMMA LeastNumber ==
    ASSUME NEW S \in SUBSET Nat, S # {}
    PROVE  \E x \in S : \A y \in S : x <= y
<1>1. PICK x \in S : \A y \in S : ~(<<y, x>> \in OpToRel(<, Nat))
  BY NatLessThanWellFounded, WFMin
<1>2. ASSUME NEW y \in S PROVE x <= y
  <2>1. x \in Nat /\ y \in Nat
    OBVIOUS
  <2>2. ~(y < x)
    BY <1>1, <2>1 DEF OpToRel
  <2> QED BY <2>1, <2>2
<1> QED BY <1>2

\* One round of the walk over dependencies.
Further(X) == X \cup UNION {s5[d].line.deps : d \in X}

\* The function that Reach counts its rounds with is the one its equation describes.
LEMMA RoundsAreDefined ==
    ASSUME NEW N \in Nat, NEW ds
    PROVE  \E f : f = [n \in 0..N |-> IF n = 0 THEN ds ELSE Further(f[n-1])]
<1> DEFINE Upto(k) == \E f : f = [n \in 0..k |-> IF n = 0 THEN ds ELSE Further(f[n-1])]
           Bad == {k \in Nat : ~Upto(k)}
<1> HIDE DEF Upto
<1>1. SUFFICES ASSUME Bad # {} PROVE FALSE
  BY DEF Upto
<1>2. PICK k \in Bad : \A j \in Bad : k <= j
  BY <1>1, LeastNumber
<1>3. k \in Nat /\ ~Upto(k)
  OBVIOUS
<1>4. k # 0
  <2>1. Upto(0)
    <3> DEFINE f == [n \in 0..0 |-> ds]
    <3>1. f = [n \in 0..0 |-> IF n = 0 THEN ds ELSE Further(f[n-1])]
      OBVIOUS
    <3> QED BY <3>1 DEF Upto
  <2> QED BY <2>1, <1>3
<1>5. Upto(k - 1)
  BY <1>2, <1>3, <1>4
<1>6. PICK f : f = [n \in 0..(k-1) |-> IF n = 0 THEN ds ELSE Further(f[n-1])]
  BY <1>5 DEF Upto
<1> DEFINE g == [n \in 0..k |-> IF n = k THEN Further(f[k-1]) ELSE f[n]]
<1>7. g = [n \in 0..k |-> IF n = 0 THEN ds ELSE Further(g[n-1])]
  <2>1. ASSUME NEW n \in 0..k PROVE g[n] = IF n = 0 THEN ds ELSE Further(g[n-1])
    <3>1. CASE n = k
      <4>1. n # 0 /\ n - 1 \in 0..k /\ n - 1 # k /\ g[n-1] = f[n-1] /\ g[n] = Further(f[k-1])
        BY <3>1, <1>3, <1>4
      <4> QED BY <4>1, <3>1
    <3>2. CASE n # k /\ n # 0
      <4>1. n \in 0..(k-1) /\ n - 1 \in 0..k /\ n - 1 # k
        BY <3>2, <1>3
      <4>2. g[n] = f[n] /\ g[n-1] = f[n-1]
        BY <4>1, <3>2
      <4>3. f[n] = Further(f[n-1])
        BY <1>6, <4>1, <3>2
      <4> QED BY <4>2, <4>3, <3>2
    <3>3. CASE n = 0
      <4>1. n \in 0..(k-1) /\ n # k
        BY <3>3, <1>3, <1>4
      <4>2. f[n] = ds
        BY <1>6, <4>1, <3>3
      <4> QED BY <4>1, <4>2, <3>3
    <3> QED BY <3>1, <3>2, <3>3
  <2> QED BY <2>1
<1> HIDE DEF g
<1> QED BY <1>3, <1>7 DEF Upto

\* Reach begins with the given answers, and each round adds what they depend on.
LEMMA ReachInRounds ==
    ASSUME NEW ds
    PROVE  \E f : /\ f[0] = ds
                  /\ \A n \in 0..MaxTurns : n # 0 => f[n] = Further(f[n-1])
                  /\ Projection!Reach(ds) = f[MaxTurns]
<1>1. IsFiniteSet(Turns) /\ Cardinality(Turns) = MaxTurns /\ MaxTurns \in Nat
  BY FS_Interval, TurnBounds DEF Turns
<1>2. Projection!Cardinality(1..MaxTurns) = MaxTurns
  BY <1>1 DEF Projection!Cardinality, Projection!IsFiniteSet, Cardinality, IsFiniteSet, Turns
<1> DEFINE f == CHOOSE f : f = [n \in 0..MaxTurns |-> IF n = 0 THEN ds ELSE Further(f[n-1])]
<1>3. f = [n \in 0..MaxTurns |-> IF n = 0 THEN ds ELSE Further(f[n-1])]
  BY <1>1, RoundsAreDefined
<1>4. Projection!Reach(ds) = f[MaxTurns]
  BY <1>2 DEF Projection!Reach, Further
<1> HIDE DEF f
<1>5. f[0] = ds /\ \A n \in 0..MaxTurns : n # 0 => f[n] = Further(f[n-1])
  BY <1>1, <1>3
<1> QED BY <1>4, <1>5

\* Each round keeps what the earlier ones reached.
LEMMA RoundsGrow ==
    ASSUME NEW f, \A n \in 0..MaxTurns : n # 0 => f[n] = Further(f[n-1]),
           NEW k \in 0..MaxTurns
    PROVE  f[k] \subseteq f[MaxTurns]
<1> DEFINE Bad == {j \in Nat : j <= MaxTurns /\ ~(f[MaxTurns - j] \subseteq f[MaxTurns])}
<1>1. ASSUME Bad # {} PROVE FALSE
  <2>1. PICK j \in Bad : \A i \in Bad : j <= i
    BY <1>1, LeastNumber
  <2>2. j \in Nat /\ j # 0 /\ j <= MaxTurns /\ MaxTurns \in Nat
    BY TurnBounds
  <2>3. j - 1 \notin Bad /\ j - 1 \in Nat /\ MaxTurns - (j - 1) = MaxTurns - j + 1
    BY <2>1, <2>2
  <2>4. f[MaxTurns - j + 1] \subseteq f[MaxTurns]
    BY <2>2, <2>3
  <2>5. f[MaxTurns - j + 1] = Further(f[MaxTurns - j])
    BY <2>2
  <2> QED BY <2>4, <2>5 DEF Further
<1>2. MaxTurns - k \in Nat /\ MaxTurns - k <= MaxTurns /\ MaxTurns - (MaxTurns - k) = k
  BY TurnBounds
<1> QED BY <1>1, <1>2

\* An answer that rests on permitted answers, however far back, tells nothing that is not
\* permitted: dependencies go back in time, so the rounds reach all of them.
LEMMA ReachIsVisible ==
    ASSUME ProjectionInv, NEW ds \in SUBSET Turns, Projection!DepsAllowed(ds), NEW d \in ds
    PROVE  Projection!Visible(s5[d].tells)
<1>1. MaxTurns \in Nat /\ \A e \in ds : e \in Turns
  BY TurnBounds
<1>2. PICK f : /\ f[0] = ds
               /\ \A n \in 0..MaxTurns : n # 0 => f[n] = Further(f[n-1])
               /\ Projection!Reach(ds) = f[MaxTurns]
  BY ReachInRounds
<1> DEFINE Bad == {e \in Nat : /\ e \in Turns /\ ~Projection!Visible(s5[e].tells)
                               /\ \E k \in 0..MaxTurns : e \in f[k] /\ e <= MaxTurns - k}
<1>3. ASSUME Bad # {} PROVE FALSE
  <2>1. PICK e \in Bad : \A i \in Bad : e <= i
    BY <1>3, LeastNumber
  <2>2. PICK k \in 0..MaxTurns : e \in f[k] /\ e <= MaxTurns - k
    OBVIOUS
  <2>3. e \in Nat /\ e \in Turns /\ 1 <= e /\ k \in Nat /\ ~Projection!Visible(s5[e].tells)
    BY DEF Turns
  <2>4. e \in Projection!Reach(ds)
    BY <1>2, <2>2, RoundsGrow
  <2>5. Projection!Authorized(s5[e].line)
    BY <2>4 DEF Projection!DepsAllowed
  <2>6. /\ s5[e].line \in Lines /\ s5[e].tells \in Told /\ s5[e].line.deps \subseteq Turns
        /\ MsgInv(e)
    BY <2>3 DEF ProjectionInv, ProjectionTypes, Messages, Lines
  <2>7. ASSUME NEW i \in s5[e].line.deps PROVE Projection!Visible(s5[i].tells)
    <3>1. i \in Turns /\ i \in Nat /\ i < e
      BY <2>6 DEF MsgInv, Turns
    <3>2. k + 1 \in 0..MaxTurns /\ k + 1 # 0 /\ (k + 1) - 1 = k /\ i <= MaxTurns - (k + 1)
      BY <1>1, <2>2, <2>3, <3>1
    <3>3. f[k + 1] = Further(f[k])
      BY <1>2, <3>2
    <3>4. i \in f[k + 1]
      BY <2>2, <2>7, <3>3 DEF Further
    <3>5. i \notin Bad
      BY <2>1, <2>3, <3>1
    <3> QED BY <3>1, <3>2, <3>4, <3>5
  <2>8. ASSUME NEW x \in s5[e].tells.subjects PROVE x \in s1.sees \cap s2
    <3>1. CASE x \in s5[e].line.subjects
      BY <2>5, <3>1 DEF Projection!Authorized, Projection!SubjectsAllowed
    <3>2. CASE ToldSubject(s5, x, s5[e].line.deps)
      BY <2>7, <3>2 DEF ToldSubject, Projection!Visible
    <3> QED BY <2>6, <3>1, <3>2 DEF MsgInv, Covers
  <2>9. ASSUME NEW x \in s5[e].tells.scopes PROVE x = s1.scope
    <3>1. CASE x = s5[e].line.scope
      <4>1. x # 0
        BY <2>6 DEF Told
      <4> QED BY <2>5, <3>1, <4>1 DEF Projection!Authorized, Projection!ScopeAllowed
    <3>2. CASE ToldScope(s5, x, s5[e].line.deps)
      BY <2>7, <3>2 DEF ToldScope, Projection!Visible
    <3> QED BY <2>6, <3>1, <3>2 DEF MsgInv, Covers
  <2> QED BY <2>3, <2>8, <2>9 DEF Projection!Visible
<1>4. d \in Turns /\ d \in Nat /\ d \in f[0] /\ d <= MaxTurns - 0 /\ 0 \in 0..MaxTurns
  BY <1>1, <1>2 DEF Turns
<1> QED BY <1>3, <1>4

\* What a permitted lineage covers is permitted.
LEMMA CoveredIsVisible ==
    ASSUME ProjectionInv, NEW line \in Lines, NEW tells \in Told, Covers(s5, line, tells),
           Projection!Authorized(line), Projection!DepsAllowed(line.deps)
    PROVE  Projection!Visible(tells)
<1>1. line.deps \in SUBSET Turns
  BY DEF Lines
<1>2. \A d \in line.deps : Projection!Visible(s5[d].tells)
  BY <1>1, ReachIsVisible
<1>3. ASSUME NEW x \in tells.subjects PROVE x \in s1.sees \cap s2
  <2>1. CASE x \in line.subjects
    BY <2>1 DEF Projection!Authorized, Projection!SubjectsAllowed
  <2>2. CASE ToldSubject(s5, x, line.deps)
    BY <1>2, <2>2 DEF ToldSubject, Projection!Visible
  <2> QED BY <2>1, <2>2 DEF Covers
<1>4. ASSUME NEW x \in tells.scopes PROVE x = s1.scope
  <2>1. CASE x = line.scope
    <3>1. x # 0
      BY DEF Told
    <3> QED BY <2>1, <3>1 DEF Projection!Authorized, Projection!ScopeAllowed
  <2>2. CASE ToldScope(s5, x, line.deps)
    BY <1>2, <2>2 DEF ToldScope, Projection!Visible
  <2> QED BY <2>1, <2>2 DEF Covers
<1> QED BY <1>3, <1>4 DEF Projection!Visible

\* The invariant keeps revoked results from being shown or served.
LEMMA NothingRevoked == ProjectionInv => Projection!NothingRevokedIsShown
<1> SUFFICES ASSUME ProjectionInv PROVE Projection!NothingRevokedIsShown
  OBVIOUS
<1>1. ASSUME NEW t \in Turns, Projection!Shown(t) = "full" PROVE Projection!Visible(s5[t].tells)
  <2>1. Projection!MessageAllowed(t)
    BY <1>1 DEF Projection!Shown
  <2>2. s5[t].line \in Lines /\ s5[t].tells \in Told /\ Covers(s5, s5[t].line, s5[t].tells)
    BY DEF ProjectionInv, ProjectionTypes, Messages, MsgInv
  <2> QED BY <2>1, <2>2, CoveredIsVisible DEF Projection!MessageAllowed
<1>2. ASSUME Projection!CopyServed PROVE Projection!Visible(s7.tells)
  <2>1. s7.line \in Lines /\ s7.tells \in Told /\ Covers(s5, s7.line, s7.tells)
    BY DEF ProjectionInv, ProjectionTypes
  <2> QED BY <1>2, <2>1, CoveredIsVisible DEF Projection!CopyServed, Projection!LineAllowed
<1> QED BY <1>1, <1>2 DEF Projection!NothingRevokedIsShown, Turns

\* Messages only tell more: a lineage that covered something covers it still.
LEMMA CoverGrows ==
    ASSUME NEW m, NEW n, NEW line, NEW tells, line.deps \subseteq Turns, Covers(m, line, tells),
           \A d \in Turns : /\ m[d].tells.subjects \subseteq n[d].tells.subjects
                            /\ m[d].tells.scopes \subseteq n[d].tells.scopes
    PROVE  Covers(n, line, tells)
<1>1. ASSUME NEW x \in tells.subjects PROVE x \in line.subjects \/ ToldSubject(n, x, line.deps)
  BY DEF Covers, ToldSubject
<1>2. ASSUME NEW x \in tells.scopes PROVE x = line.scope \/ ToldScope(n, x, line.deps)
  BY DEF Covers, ToldScope
<1> QED BY <1>1, <1>2 DEF Covers

\* A step of one turn: its own parts of the invariant are to be shown.
LEMMA ProjectionMoves ==
    ASSUME ProjectionInv, ProjectionTypes', NEW t \in Turns,
           \A u \in Turns \ {t} : s4'[u] = s4[u] /\ s5'[u] = s5[u] /\ s6'[u] = s6[u],
           s5[t].tells.subjects \subseteq s5'[t].tells.subjects,
           s5[t].tells.scopes \subseteq s5'[t].tells.scopes,
           s4[t].at # "idle" => s4'[t].at # "idle",
           RunInv(t)', MsgInv(t)', ActInv(t)', Covers(s5, s7.line, s7.tells)'
    PROVE  ProjectionInv'
<1>1. \A d \in Turns : /\ s5[d].tells.subjects \subseteq s5'[d].tells.subjects
                       /\ s5[d].tells.scopes \subseteq s5'[d].tells.scopes
  OBVIOUS
<1>2. ASSUME NEW u \in Turns \ {t} PROVE RunInv(u)' /\ MsgInv(u)' /\ ActInv(u)'
  <2>1. /\ RunInv(u) /\ MsgInv(u) /\ ActInv(u)
        /\ s4[u].deps \subseteq Turns /\ s5[u].line.deps \subseteq Turns
    BY DEF ProjectionInv, ProjectionTypes, Runs, Messages, Lines
  <2>2. s4'[u] = s4[u] /\ s5'[u] = s5[u] /\ s6'[u] = s6[u]
    OBVIOUS
  <2>3. s4[u].at # "idle" => \A w \in Turns : w < u => s4'[w].at # "idle"
    BY <2>1 DEF RunInv
  <2>4. /\ \A x \in s4[u].told.subjects : ToldSubject(s5', x, s4[u].deps)
        /\ \A x \in s4[u].tells.subjects : x \in s4[u].subjects \/ ToldSubject(s5', x, s4[u].deps)
    BY <1>1, <2>1 DEF RunInv, ToldSubject
  <2>5. /\ \A x \in s4[u].told.scopes : ToldScope(s5', x, s4[u].deps)
        /\ \A x \in s4[u].tells.scopes :
             (s4[u].bound /\ x = s4[u].scope) \/ ToldScope(s5', x, s4[u].deps)
    BY <1>1, <2>1 DEF RunInv, ToldScope
  <2>6. RunInv(u)'
    BY <2>1, <2>2, <2>3, <2>4, <2>5 DEF RunInv
  <2>7. Covers(s5', s5[u].line, s5[u].tells)
    BY <1>1, <2>1, CoverGrows DEF MsgInv
  <2>8. MsgInv(u)' /\ ActInv(u)'
    BY <2>1, <2>2, <2>7 DEF MsgInv, ActInv
  <2> QED BY <2>6, <2>8
<1> QED BY <1>2 DEF ProjectionInv

\* A step that writes no message, and moves a turn forward at most.
LEMMA ProjectionTurns ==
    ASSUME ProjectionInv, ProjectionTypes', NEW t \in Turns, s5' = s5,
           \A u \in Turns \ {t} : s4'[u] = s4[u] /\ s6'[u] = s6[u],
           \/ s4'[t].at = s4[t].at
           \/ s4[t].at \in {"idle", "loaded"} /\ s4'[t].at \in {"loaded", "open"},
           RunInv(t)', ActInv(t)', Covers(s5, s7.line, s7.tells)'
    PROVE  ProjectionInv'
<1>1. MsgInv(t)
  BY DEF ProjectionInv
<1>2. MsgInv(t)'
  BY <1>1 DEF MsgInv, Projection!NoMsg, Projection!NoLine
<1> QED BY <1>2, ProjectionMoves

\* The history a turn loads: earlier turns, and what their messages tell.
LEMMA HistoryIsEarlier ==
    ASSUME ProjectionInv, NEW t \in Turns, Projection!LoadHistory(t)
    PROVE  /\ Projection!Supplied \subseteq Turns /\ \A d \in Projection!Supplied : d < t
           /\ Projection!ToldBy(Projection!Supplied) \in Told
           /\ \A x \in Projection!ToldBy(Projection!Supplied).subjects : ToldSubject(s5, x, Projection!Supplied)
           /\ \A x \in Projection!ToldBy(Projection!Supplied).scopes : ToldScope(s5, x, Projection!Supplied)
<1>1. ASSUME NEW d \in Projection!Supplied PROVE d \in Turns /\ d < t
  <2>1. d \in Turns /\ Projection!Shown(d) # "none" /\ Projection!Shown(d) # "hidden"
    BY DEF Projection!Supplied, Turns
  <2>2. s5[d].there
    BY <2>1 DEF Projection!Shown
  <2>3. s4[d].at # "idle" /\ s4[t].at = "idle"
    BY <2>1, <2>2 DEF ProjectionInv, MsgInv, Projection!LoadHistory
  <2>4. ~(t < d) /\ t # d
    BY <2>1, <2>3 DEF ProjectionInv, RunInv
  <2> QED BY <2>1, <2>4 DEF Turns
<1>2. ASSUME NEW d \in Turns
      PROVE  /\ Projection!Learnt(d).subjects \subseteq s5[d].tells.subjects
             /\ Projection!Learnt(d).scopes \subseteq s5[d].tells.scopes
  BY DEF Projection!Learnt, Projection!NoTells
<1>3. \A d \in Turns : s5[d].tells \in Told
  BY DEF ProjectionInv, ProjectionTypes, Messages
<1> DEFINE ds == Projection!Supplied
<1>4. ds \subseteq Turns
  BY <1>1
<1> HIDE DEF ds
<1>5. /\ \A x \in Projection!ToldBy(ds).subjects : ToldSubject(s5, x, ds)
      /\ \A x \in Projection!ToldBy(ds).scopes : ToldScope(s5, x, ds)
  BY <1>2, <1>4 DEF Projection!ToldBy, ToldSubject, ToldScope
<1>6. Projection!ToldBy(ds) \in Told
  BY <1>2, <1>3, <1>4 DEF Projection!ToldBy, Told
<1> QED BY <1>1, <1>5, <1>6 DEF ds

\* A run loads its history: what it may tell comes from earlier turns only.
LEMMA LoadStep ==
    ASSUME ProjectionInv, NEW t \in Turns, Projection!LoadHistory(t)
    PROVE  ProjectionInv'
<1> DEFINE ds == Projection!Supplied
           told == Projection!ToldBy(ds)
<1>1. /\ ds \subseteq Turns /\ (\A d \in ds : d < t) /\ told \in Told
      /\ \A x \in told.subjects : ToldSubject(s5, x, ds)
      /\ \A x \in told.scopes : ToldScope(s5, x, ds)
  BY HistoryIsEarlier
<1>2. /\ s4[t].at = "idle" /\ (\A u \in Turns : u < t => s4[u].at # "idle")
      /\ s4' = [s4 EXCEPT ![t].at = "loaded", ![t].deps = ds, ![t].told = told, ![t].tells = told]
      /\ UNCHANGED <<s1, s2, s5, s6, s7>>
  BY DEF Projection!LoadHistory, Turns
<1> HIDE DEF ds, told
<1>3. /\ ProjectionTypes /\ s4[t] \in Runs /\ ~s4[t].bound /\ ActInv(t) /\ Covers(s5, s7.line, s7.tells)
  BY <1>2 DEF ProjectionInv, ProjectionTypes, RunInv
<1>4. [s4[t] EXCEPT !.at = "loaded", !.deps = ds, !.told = told, !.tells = told] \in Runs
  BY <1>1, <1>3 DEF Runs
<1>5. /\ s4'[t].at = "loaded" /\ s4'[t].deps = ds /\ s4'[t].told = told /\ s4'[t].tells = told
      /\ s4'[t].bound = s4[t].bound /\ \A u \in Turns \ {t} : s4'[u] = s4[u]
  BY <1>2, <1>3 DEF ProjectionTypes, Runs
<1>6. s4' \in [Turns -> Runs]
  BY <1>2, <1>3, <1>4 DEF ProjectionTypes
<1>7. ProjectionTypes'
  BY <1>2, <1>3, <1>6 DEF ProjectionTypes
<1>8. \A u \in Turns : u < t => s4'[u].at # "idle"
  BY <1>2, <1>5 DEF Turns
<1>9. RunInv(t)'
  BY <1>1, <1>2, <1>3, <1>5, <1>8 DEF RunInv
<1>10. ActInv(t)'
  BY <1>2, <1>3 DEF ActInv
<1> QED BY <1>2, <1>3, <1>5, <1>7, <1>9, <1>10, ProjectionTurns

\* A run begins with what its user may see and call by then.
LEMMA BeginStep ==
    ASSUME ProjectionInv, NEW t \in Turns, Projection!Begin(t)
    PROVE  ProjectionInv'
<1>1. /\ s4[t].at = "loaded" /\ UNCHANGED <<s1, s2, s5, s6, s7>>
      /\ s4' = [s4 EXCEPT ![t].at = "open", ![t].may = s1.tools, ![t].sees = s1.sees, ![t].scope = s1.scope]
  BY DEF Projection!Begin
<1>2. /\ ProjectionTypes /\ s4[t] \in Runs /\ RunInv(t) /\ ActInv(t) /\ Covers(s5, s7.line, s7.tells)
      /\ s1.tools \subseteq Projection!Tool /\ s1.sees \subseteq Subject /\ s1.scope \in {1, 2}
  BY DEF ProjectionInv, ProjectionTypes
<1>3. [s4[t] EXCEPT !.at = "open", !.may = s1.tools, !.sees = s1.sees, !.scope = s1.scope] \in Runs
  BY <1>2 DEF Runs
<1>4. /\ s4'[t].at = "open" /\ s4'[t].deps = s4[t].deps /\ s4'[t].told = s4[t].told
      /\ s4'[t].tells = s4[t].tells /\ s4'[t].subjects = s4[t].subjects
      /\ s4'[t].bound = s4[t].bound /\ s4'[t].scope \in {1, 2} /\ \A u \in Turns \ {t} : s4'[u] = s4[u]
  BY <1>1, <1>2 DEF ProjectionTypes, Runs
<1>5. ProjectionTypes'
  BY <1>1, <1>2, <1>3 DEF ProjectionTypes
<1>6. \A u \in Turns : u < t => s4'[u].at # "idle"
  BY <1>1, <1>2, <1>4 DEF RunInv, Turns
<1>7. ~s4[t].bound /\ \A x \in s4[t].tells.scopes : ToldScope(s5, x, s4[t].deps)
  BY <1>1, <1>2 DEF RunInv
<1>8. RunInv(t)'
  <2>1. s5' = s5 /\ s4'[t].scope # 0 /\ ~s4'[t].bound
    BY <1>1, <1>4, <1>7
  <2>2. /\ \A d \in s4'[t].deps : d < t
        /\ \A x \in s4'[t].told.subjects : ToldSubject(s5', x, s4'[t].deps)
        /\ \A x \in s4'[t].told.scopes : ToldScope(s5', x, s4'[t].deps)
        /\ \A x \in s4'[t].tells.subjects : x \in s4'[t].subjects \/ ToldSubject(s5', x, s4'[t].deps)
        /\ \A x \in s4'[t].tells.scopes : ToldScope(s5', x, s4'[t].deps)
    BY <1>2, <1>4, <1>7, <2>1 DEF RunInv
  <2> QED BY <1>4, <1>6, <2>1, <2>2 DEF RunInv
<1>9. ActInv(t)'
  BY <1>1, <1>2, <1>4 DEF ActInv
<1> QED BY <1>1, <1>2, <1>4, <1>5, <1>8, <1>9, ProjectionTurns

\* What a read adds to the turn, and what it may leave in the query cache.
LEMMA ReadStep ==
    ASSUME ProjectionInv, NEW t \in Turns, NEW tells \in Told,
           tells.scopes \subseteq {s4[t].scope}, Projection!Read(t, tells)
    PROVE  ProjectionInv'
<1> DEFINE all == [subjects |-> s4[t].tells.subjects \cup tells.subjects,
                   scopes |-> s4[t].tells.scopes \cup tells.scopes]
           bound == s4[t].bound \/ tells.scopes # {}
<1>1. /\ s4[t].at = "open" /\ UNCHANGED <<s1, s2, s5, s6>>
      /\ s4' = [s4 EXCEPT ![t].tells = all, ![t].subjects = @ \cup tells.subjects,
                          ![t].tools = @ \cup {"read"}, ![t].cards = @ \cup {"read"},
                          ![t].bound = @ \/ tells.scopes # {}]
  BY DEF Projection!Read, Projection!And
<1>2. /\ ProjectionTypes /\ s4[t] \in Runs /\ RunInv(t) /\ ActInv(t) /\ Covers(s5, s7.line, s7.tells)
  BY DEF ProjectionInv, ProjectionTypes
<1>3. all \in Told /\ s4[t].told \in Told /\ tells.subjects \subseteq Subject /\ tells.scopes \subseteq {1, 2}
  BY <1>2 DEF Runs, Told
<1>4. [s4[t] EXCEPT !.tells = all, !.subjects = @ \cup tells.subjects, !.tools = @ \cup {"read"},
                    !.cards = @ \cup {"read"}, !.bound = @ \/ tells.scopes # {}] \in Runs
  BY <1>2, <1>3 DEF Runs, Projection!Tool
<1>5. /\ s4'[t].at = "open" /\ s4'[t].deps = s4[t].deps /\ s4'[t].told = s4[t].told
      /\ s4'[t].tells = all /\ s4'[t].subjects = s4[t].subjects \cup tells.subjects
      /\ s4'[t].scope = s4[t].scope /\ \A u \in Turns \ {t} : s4'[u] = s4[u]
  BY <1>1, <1>2 DEF ProjectionTypes, Runs
<1>6. s4'[t].bound = bound
  BY <1>1, <1>2 DEF ProjectionTypes, Runs
<1>7. s4' \in [Turns -> Runs]
  BY <1>1, <1>2, <1>4 DEF ProjectionTypes
<1>8. /\ s7' \in [line : Lines, tells : Told] /\ Covers(s5, s7'.line, s7'.tells)
  <2>1. CASE s7' = s7
    BY <1>2, <2>1 DEF ProjectionTypes
  <2> DEFINE line == [known |-> TRUE, tools |-> {"read"}, subjects |-> tells.subjects,
                      scope |-> IF tells.scopes # {} THEN s4[t].scope ELSE 0, deps |-> s4[t].deps]
             told == [subjects |-> s4[t].told.subjects \cup tells.subjects,
                      scopes |-> s4[t].told.scopes \cup tells.scopes]
  <2>2. CASE s7' = [line |-> line, tells |-> told]
    <3>1. told \in Told
      BY <1>3 DEF Told
    <3>2. line \in Lines
      BY <1>2, <1>3 DEF Lines, Runs, Projection!Tool
    <3>3. Covers(s5, line, told)
      <4>1. ASSUME NEW x \in told.subjects PROVE x \in line.subjects \/ ToldSubject(s5, x, line.deps)
        BY <1>2 DEF RunInv
      <4>2. ASSUME NEW x \in told.scopes PROVE x = line.scope \/ ToldScope(s5, x, line.deps)
        BY <1>2 DEF RunInv
      <4> HIDE DEF line, told
      <4> QED BY <4>1, <4>2 DEF Covers
    <3> QED BY <2>2, <3>1, <3>2, <3>3
  <2> QED BY <2>1, <2>2 DEF Projection!Read, Projection!Line, Projection!And
<1>9. ProjectionTypes'
  BY <1>1, <1>2, <1>7, <1>8 DEF ProjectionTypes
<1>10. \A u \in Turns : u < t => s4'[u].at # "idle"
  BY <1>1, <1>2, <1>5 DEF RunInv, Turns
<1>11. /\ \A x \in all.subjects : x \in s4[t].subjects \cup tells.subjects \/ ToldSubject(s5, x, s4[t].deps)
       /\ \A x \in all.scopes : (bound /\ x = s4[t].scope) \/ ToldScope(s5, x, s4[t].deps)
  BY <1>2 DEF RunInv
<1> HIDE DEF all, bound
<1>12. s4[t].scope # 0
  BY <1>1, <1>2 DEF RunInv
<1>13. RunInv(t)'
  BY <1>1, <1>2, <1>5, <1>6, <1>10, <1>11, <1>12 DEF RunInv
<1>14. ActInv(t)'
  BY <1>1, <1>2, <1>5 DEF ActInv
<1>15. Covers(s5, s7.line, s7.tells)'
  BY <1>1, <1>8
<1> QED BY <1>1, <1>5, <1>9, <1>13, <1>14, <1>15, ProjectionTurns

\* A step about the deletion of a turn keeps what the turn was told; it may add the rows
\* that were deleted to what the turn names and tells.
LEMMA ActMoves ==
    ASSUME ProjectionInv, ProjectionTypes', NEW t \in Turns, s5' = s5, s7' = s7, NEW gone,
           \A u \in Turns \ {t} : s4'[u] = s4[u] /\ s6'[u] = s6[u],
           s4'[t].at = s4[t].at, s4'[t].deps = s4[t].deps, s4'[t].told = s4[t].told,
           s4'[t].subjects = s4[t].subjects \cup gone,
           s4'[t].tells.subjects = s4[t].tells.subjects \cup gone,
           s4'[t].tells.scopes = s4[t].tells.scopes,
           s4'[t].bound = s4[t].bound, s4'[t].scope = s4[t].scope,
           ActInv(t)'
    PROVE  ProjectionInv'
<1>1. RunInv(t) /\ Covers(s5, s7.line, s7.tells)
  BY DEF ProjectionInv
<1>2. RunInv(t)'
  <2>1. s4'[t].at # "idle" => \A u \in Turns : u < t => s4'[u].at # "idle"
    BY <1>1 DEF RunInv, Turns
  <2>2. /\ \A d \in s4'[t].deps : d < t
        /\ \A x \in s4'[t].told.subjects : ToldSubject(s5', x, s4'[t].deps)
        /\ \A x \in s4'[t].told.scopes : ToldScope(s5', x, s4'[t].deps)
    BY <1>1 DEF RunInv
  <2>3. \A x \in s4'[t].tells.subjects : x \in s4'[t].subjects \/ ToldSubject(s5', x, s4'[t].deps)
    BY <1>1 DEF RunInv
  <2>4. \A x \in s4'[t].tells.scopes : (s4'[t].bound /\ x = s4'[t].scope) \/ ToldScope(s5', x, s4'[t].deps)
    BY <1>1 DEF RunInv
  <2>5. /\ s4'[t].at # "open" => ~s4'[t].bound
        /\ s4'[t].at = "open" => s4'[t].scope # 0
    BY <1>1 DEF RunInv
  <2> QED BY <2>1, <2>2, <2>3, <2>4, <2>5 DEF RunInv
<1> QED BY <1>1, <1>2, ProjectionTurns

\* A run prepares an action, which keeps the subject and the runs it rests on.
LEMMA PrepareStep ==
    ASSUME ProjectionInv, NEW t \in Turns, Projection!Prepare(t)
    PROVE  ProjectionInv'
<1>1. /\ ProjectionTypes /\ s4[t] \in Runs /\ s4[t].deps \subseteq Turns
      /\ \A d \in s4[t].deps : d < t
  BY DEF ProjectionInv, ProjectionTypes, Runs, RunInv
<1>2. PICK s \in Subject : s6' = [s6 EXCEPT ![t] = [st |-> "pending", subjects |-> {s}, deps |-> s4[t].deps]]
  BY <1>1 DEF Projection!Prepare, ProjectionTypes
<1>3. /\ s4[t].at = "open" /\ UNCHANGED <<s1, s2, s5, s7>>
      /\ s4' = [s4 EXCEPT ![t].cards = @ \cup {"delete"}]
  BY DEF Projection!Prepare
<1>4. [s4[t] EXCEPT !.cards = @ \cup {"delete"}] \in Runs
  BY <1>1 DEF Runs, Projection!Tool
<1>5. [st |-> "pending", subjects |-> {s}, deps |-> s4[t].deps] \in Actions
  BY <1>1 DEF Actions
<1>6. s4' \in [Turns -> Runs] /\ s6' \in [Turns -> Actions]
  BY <1>1, <1>2, <1>3, <1>4, <1>5 DEF ProjectionTypes
<1>7. ProjectionTypes'
  BY <1>1, <1>3, <1>6 DEF ProjectionTypes
<1>8. /\ s4'[t].at = "open" /\ s4'[t].deps = s4[t].deps /\ s4'[t].told = s4[t].told
      /\ s4'[t].tells = s4[t].tells /\ s4'[t].subjects = s4[t].subjects
      /\ s4'[t].bound = s4[t].bound /\ s4'[t].scope = s4[t].scope
      /\ \A u \in Turns \ {t} : s4'[u] = s4[u] /\ s6'[u] = s6[u]
  BY <1>1, <1>2, <1>3 DEF ProjectionTypes, Runs
<1>9. s6'[t].deps = s4[t].deps
  BY <1>1, <1>2 DEF ProjectionTypes
<1>10. ActInv(t)'
  BY <1>1, <1>8, <1>9 DEF ActInv
<1>11. /\ s4'[t].subjects = s4[t].subjects \cup {} /\ s4'[t].tells.scopes = s4[t].tells.scopes
       /\ s4'[t].tells.subjects = s4[t].tells.subjects \cup {}
  BY <1>8
<1> QED BY <1>3, <1>7, <1>8, <1>10, <1>11, ActMoves

\* A pending action is claimed: its outcome is open.
LEMMA ClaimStep ==
    ASSUME ProjectionInv, NEW t \in Turns, Projection!Claim(t)
    PROVE  ProjectionInv'
<1>1. /\ ProjectionTypes /\ s6[t] \in Actions /\ ActInv(t)
  BY DEF ProjectionInv, ProjectionTypes
<1>2. /\ s6[t].st = "pending" /\ UNCHANGED <<s1, s2, s4, s5, s7>>
      /\ s6' = [s6 EXCEPT ![t].st = "unproved"]
  BY DEF Projection!Claim
<1>3. [s6[t] EXCEPT !.st = "unproved"] \in Actions
  BY <1>1 DEF Actions
<1>4. ProjectionTypes'
  BY <1>1, <1>2, <1>3 DEF ProjectionTypes
<1>5. s6'[t].deps = s6[t].deps /\ \A u \in Turns \ {t} : s6'[u] = s6[u]
  BY <1>1, <1>2 DEF ProjectionTypes, Actions
<1>6. ActInv(t)'
  BY <1>1, <1>2, <1>5 DEF ActInv
<1>7. /\ s4'[t].subjects = s4[t].subjects \cup {} /\ s4'[t].tells.scopes = s4[t].tells.scopes
      /\ s4'[t].tells.subjects = s4[t].tells.subjects \cup {}
  BY <1>2
<1> QED BY <1>2, <1>4, <1>5, <1>6, <1>7, ActMoves

\* A stream that still runs names the rows its deletion took.
LEMMA SettleStep ==
    ASSUME ProjectionInv, NEW t \in Turns, s6[t].st # "none",
           NEW st \in {"done", "void"}, NEW gone \in SUBSET Subject, Projection!Settle(t, st, gone)
    PROVE  ProjectionInv'
<1>1. /\ ProjectionTypes /\ s4[t] \in Runs /\ s6[t] \in Actions /\ ActInv(t) /\ s4[t].tells \in Told
  BY DEF ProjectionInv, ProjectionTypes, Runs
<1>2. s2' = s2 \ gone /\ UNCHANGED <<s1, s5, s7>> /\ s6' = [s6 EXCEPT ![t].st = st]
  BY DEF Projection!Settle
<1>3. [s6[t] EXCEPT !.st = st] \in Actions
  BY <1>1 DEF Actions
<1>4. s6' \in [Turns -> Actions] /\ s2' \in SUBSET Subject
  BY <1>1, <1>2, <1>3 DEF ProjectionTypes
<1>5. s6'[t].deps = s6[t].deps /\ \A u \in Turns \ {t} : s6'[u] = s6[u]
  BY <1>1, <1>2 DEF ProjectionTypes, Actions
<1>6. CASE s4[t].at # "open"
  <2>1. s4' = s4
    BY <1>6 DEF Projection!Settle
  <2>2. ProjectionTypes'
    BY <1>1, <1>2, <1>4, <2>1 DEF ProjectionTypes
  <2>3. ActInv(t)'
    BY <1>1, <1>5, <2>1 DEF ActInv
  <2>4. /\ s4'[t].subjects = s4[t].subjects \cup {} /\ s4'[t].tells.scopes = s4[t].tells.scopes
        /\ s4'[t].tells.subjects = s4[t].tells.subjects \cup {}
    BY <2>1
  <2> QED BY <1>2, <1>5, <2>1, <2>2, <2>3, <2>4, ActMoves
<1>7. CASE s4[t].at = "open"
  <2> DEFINE all == [subjects |-> s4[t].tells.subjects \cup gone, scopes |-> s4[t].tells.scopes \cup {}]
  <2>1. s4' = [s4 EXCEPT ![t].tools = @ \cup {"delete"}, ![t].subjects = @ \cup gone, ![t].tells = all]
    BY <1>7 DEF Projection!Settle, Projection!And, Projection!NoTells
  <2>2. all \in Told
    BY <1>1 DEF Told
  <2>3. [s4[t] EXCEPT !.tools = @ \cup {"delete"}, !.subjects = @ \cup gone, !.tells = all] \in Runs
    BY <1>1, <2>2 DEF Runs, Projection!Tool
  <2>4. s4' \in [Turns -> Runs]
    BY <1>1, <2>1, <2>3 DEF ProjectionTypes
  <2>5. ProjectionTypes'
    BY <1>1, <1>2, <1>4, <2>4 DEF ProjectionTypes
  <2>6. /\ s4'[t].at = s4[t].at /\ s4'[t].deps = s4[t].deps /\ s4'[t].told = s4[t].told
        /\ s4'[t].tells = all /\ s4'[t].subjects = s4[t].subjects \cup gone
        /\ s4'[t].bound = s4[t].bound /\ s4'[t].scope = s4[t].scope
        /\ \A u \in Turns \ {t} : s4'[u] = s4[u]
    BY <1>1, <2>1 DEF ProjectionTypes, Runs
  <2>7. ActInv(t)'
    BY <1>1, <1>5, <2>6 DEF ActInv
  <2>8. s4'[t].tells.subjects = s4[t].tells.subjects \cup gone /\ s4'[t].tells.scopes = s4[t].tells.scopes
    BY <2>6
  <2> QED BY <1>2, <1>5, <2>5, <2>6, <2>7, <2>8, ActMoves
<1> QED BY <1>6, <1>7

\* A copy of a message, and the world around the conversation.
LEMMA WorldStep ==
    ASSUME ProjectionInv,
           \/ \E t \in Turns : Projection!IssueToken(t)
           \/ Projection!DeleteConversation \/ Projection!MoveRow \/ Projection!Rescope
           \/ Projection!Repermit \/ Projection!RemoveRow
    PROVE  ProjectionInv'
<1>1. ProjectionTypes
  BY DEF ProjectionInv
<1>2. ASSUME ProjectionTypes', UNCHANGED <<s4, s5, s6>>, Covers(s5, s7'.line, s7'.tells) PROVE ProjectionInv'
  BY <1>2 DEF ProjectionInv, RunInv, MsgInv, ActInv
<1>3. ASSUME NEW t \in Turns, Projection!IssueToken(t) PROVE ProjectionInv'
  <2>1. UNCHANGED <<s1, s2, s4, s5, s6>> /\ s7' = [line |-> s5[t].line, tells |-> s5[t].tells]
    BY <1>3 DEF Projection!IssueToken
  <2>2. s5[t].line \in Lines /\ s5[t].tells \in Told /\ Covers(s5, s5[t].line, s5[t].tells)
    BY <1>1 DEF ProjectionInv, MsgInv, ProjectionTypes, Messages
  <2>3. ProjectionTypes'
    BY <1>1, <2>1, <2>2 DEF ProjectionTypes
  <2> QED BY <1>2, <2>1, <2>2, <2>3
<1>4. ASSUME UNCHANGED <<s4, s5, s6, s7>>, s2' \in SUBSET Subject,
             s1' \in [sees : SUBSET Subject, tools : SUBSET Projection!Tool, scope : {1, 2}]
      PROVE  ProjectionInv'
  <2>1. ProjectionTypes'
    BY <1>1, <1>4 DEF ProjectionTypes
  <2> QED BY <1>2, <1>4, <2>1 DEF ProjectionInv
<1>5. ASSUME NEW a, NEW r, Projection!Change(a, r)
      PROVE  s1' = a /\ s2' = r /\ UNCHANGED <<s4, s5, s6, s7>>
  BY <1>5 DEF Projection!Change
<1>6. ASSUME Projection!DeleteConversation PROVE ProjectionInv'
  BY <1>1, <1>4, <1>6 DEF Projection!DeleteConversation, ProjectionTypes
<1>7. ASSUME Projection!MoveRow PROVE ProjectionInv'
  <2>1. PICK s \in Subject :
          Projection!Change([s1 EXCEPT !.sees = IF s \in s1.sees THEN s1.sees \ {s} ELSE s1.sees \cup {s}], s2)
    BY <1>7 DEF Projection!MoveRow
  <2>2. (IF s \in s1.sees THEN s1.sees \ {s} ELSE s1.sees \cup {s}) \in SUBSET Subject
    BY <1>1 DEF ProjectionTypes
  <2>3. [s1 EXCEPT !.sees = IF s \in s1.sees THEN s1.sees \ {s} ELSE s1.sees \cup {s}]
          \in [sees : SUBSET Subject, tools : SUBSET Projection!Tool, scope : {1, 2}]
    BY <1>1, <2>2 DEF ProjectionTypes
  <2> QED BY <1>1, <1>4, <1>5, <2>1, <2>3 DEF ProjectionTypes
<1>8. ASSUME Projection!Rescope PROVE ProjectionInv'
  <2>1. Projection!Change([s1 EXCEPT !.scope = 3 - s1.scope], s2)
    BY <1>8 DEF Projection!Rescope
  <2>2. [s1 EXCEPT !.scope = 3 - s1.scope]
          \in [sees : SUBSET Subject, tools : SUBSET Projection!Tool, scope : {1, 2}]
    BY <1>1 DEF ProjectionTypes
  <2> QED BY <1>1, <1>4, <1>5, <2>1, <2>2 DEF ProjectionTypes
<1>9. ASSUME Projection!Repermit PROVE ProjectionInv'
  <2>1. PICK p \in Projection!Tool :
          Projection!Change([s1 EXCEPT !.tools = IF p \in s1.tools THEN s1.tools \ {p} ELSE s1.tools \cup {p}], s2)
    BY <1>9 DEF Projection!Repermit
  <2>2. (IF p \in s1.tools THEN s1.tools \ {p} ELSE s1.tools \cup {p}) \in SUBSET Projection!Tool
    BY <1>1 DEF ProjectionTypes
  <2>3. [s1 EXCEPT !.tools = IF p \in s1.tools THEN s1.tools \ {p} ELSE s1.tools \cup {p}]
          \in [sees : SUBSET Subject, tools : SUBSET Projection!Tool, scope : {1, 2}]
    BY <1>1, <2>2 DEF ProjectionTypes
  <2> QED BY <1>1, <1>4, <1>5, <2>1, <2>3 DEF ProjectionTypes
<1>10. ASSUME Projection!RemoveRow PROVE ProjectionInv'
  <2>1. PICK s \in s2 : Projection!Change(s1, s2 \ {s})
    BY <1>10 DEF Projection!RemoveRow
  <2> QED BY <1>1, <1>4, <1>5, <2>1 DEF ProjectionTypes
<1> QED BY <1>3, <1>6, <1>7, <1>8, <1>9, <1>10

\* A union of lineages covers what either covered, if only one of them is about a scope.
LEMMA UnionCovers ==
    ASSUME NEW m, NEW a \in Lines, NEW b \in Lines, NEW ta \in Told, NEW tb \in Told,
           Covers(m, a, ta), Covers(m, b, tb), a.scope = 0 \/ b.scope = 0,
           NEW tells, tells.subjects \subseteq ta.subjects \cup tb.subjects,
           tells.scopes \subseteq ta.scopes \cup tb.scopes
    PROVE  /\ Projection!Union(a, b) \in Lines /\ Projection!Union(a, b).known
           /\ Projection!Union(a, b).deps = a.deps \cup b.deps
           /\ Projection!Union(a, b).scope = IF a.scope # 0 THEN a.scope ELSE b.scope
           /\ Covers(m, Projection!Union(a, b), tells)
<1> DEFINE u == [known |-> TRUE, tools |-> a.tools \cup b.tools, subjects |-> a.subjects \cup b.subjects,
                 scope |-> IF a.scope # 0 THEN a.scope ELSE b.scope, deps |-> a.deps \cup b.deps]
<1>1. Projection!Union(a, b) = u
  BY DEF Projection!Union, Projection!Line
<1>2. u \in Lines
  BY DEF Lines
<1>3. 0 \notin ta.scopes /\ 0 \notin tb.scopes
  BY DEF Told
<1>4. ASSUME NEW x \in tells.subjects PROVE x \in u.subjects \/ ToldSubject(m, x, u.deps)
  BY DEF Covers, ToldSubject
<1>5. ASSUME NEW x \in tells.scopes PROVE x = u.scope \/ ToldScope(m, x, u.deps)
  <2>1. CASE x \in ta.scopes
    <3>1. x # 0 /\ (x = a.scope \/ ToldScope(m, x, a.deps))
      BY <1>3, <2>1 DEF Covers
    <3> QED BY <3>1 DEF ToldScope
  <2>2. CASE x \in tb.scopes
    <3>1. x # 0 /\ (x = b.scope \/ ToldScope(m, x, b.deps))
      BY <1>3, <2>2 DEF Covers
    <3> QED BY <3>1 DEF ToldScope
  <2> QED BY <2>1, <2>2
<1>6. u.known /\ u.deps = a.deps \cup b.deps /\ u.scope = IF a.scope # 0 THEN a.scope ELSE b.scope
  OBVIOUS
<1> HIDE DEF u
<1>7. Covers(m, u, tells)
  BY <1>4, <1>5 DEF Covers
<1> QED BY <1>1, <1>2, <1>6, <1>7

\* The lineage of the deletion a turn confirmed: earlier answers, and no scope.
LEMMA ActLineIsPlain ==
    ASSUME ProjectionInv, NEW t \in Turns
    PROVE  LET a == Projection!ActLine(t)
           IN  /\ a \in Lines /\ a.known /\ a.scope = 0 /\ a.subjects = s6[t].subjects
               /\ \A d \in a.deps : d < t
<1>1. s6[t] \in Actions /\ ActInv(t)
  BY DEF ProjectionInv, ProjectionTypes
<1> QED BY <1>1 DEF Projection!ActLine, Projection!Line, Lines, Actions, ActInv, Projection!Tool

\* The facts of a proved deletion are added to a lineage, which then covers no less.
LEMMA WithFactsCovers ==
    ASSUME ProjectionInv, NEW t \in Turns, NEW line \in Lines, line.known, NEW tells \in Told,
           \A d \in line.deps : d < t, Covers(s5, line, tells)
    PROVE  LET new == Projection!WithFacts(t, line)
           IN  /\ new \in Lines /\ new.known /\ new.scope = line.scope
               /\ \A d \in new.deps : d < t
               /\ Covers(s5, new, tells)
<1> DEFINE act == Projection!ActLine(t)
           none == [subjects |-> {}, scopes |-> {}]
<1>1. act \in Lines /\ act.scope = 0 /\ \A d \in act.deps : d < t
  BY ActLineIsPlain
<1>2. none \in Told /\ Covers(s5, act, none)
  BY DEF Told, Covers
<1>3. Projection!WithFacts(t, line) = line \/ Projection!WithFacts(t, line) = Projection!Union(line, act)
  BY DEF Projection!WithFacts
<1>4. tells.subjects \subseteq tells.subjects \cup none.subjects /\ tells.scopes \subseteq tells.scopes \cup none.scopes
  OBVIOUS
<1> HIDE DEF act, none
<1>5. /\ Projection!Union(line, act) \in Lines /\ Projection!Union(line, act).known
      /\ Projection!Union(line, act).deps = line.deps \cup act.deps
      /\ Projection!Union(line, act).scope = IF line.scope # 0 THEN line.scope ELSE act.scope
      /\ Covers(s5, Projection!Union(line, act), tells)
  BY <1>1, <1>2, <1>4, UnionCovers
<1>6. Projection!Union(line, act).scope = line.scope /\ \A d \in Projection!Union(line, act).deps : d < t
  BY <1>1, <1>5
<1> QED BY <1>3, <1>5, <1>6

\* What the finaliser makes of a message covers what the message told and tells.
LEMMA FinalizedCovers ==
    ASSUME ProjectionInv, NEW t \in Turns, NEW text \in BOOLEAN, NEW cards \in SUBSET Projection!Tool,
           NEW line \in Lines, line.known, NEW deps \in SUBSET Turns, NEW tells \in Told,
           \A d \in line.deps \cup deps : d < t,
           line.scope # 0 => s5[t].line.scope = 0,
           Covers(s5, [line EXCEPT !.deps = @ \cup deps], tells)
    PROVE  LET f == Projection!Finalized(t, text, cards, line, deps, tells)
           IN  \/ f = s5[t]
               \/ /\ f \in Messages /\ f.there /\ f.line.known
                  /\ f.line.scope = IF line.scope # 0 THEN line.scope ELSE s5[t].line.scope
                  /\ \A d \in f.line.deps : d < t
                  /\ Covers(s5, f.line, f.tells)
                  /\ s5[t].tells.subjects \subseteq f.tells.subjects
                  /\ s5[t].tells.scopes \subseteq f.tells.scopes
<1> DEFINE full == [line EXCEPT !.deps = @ \cup deps]
           new == Projection!WithFacts(t, full)
           all == Projection!And(s5[t].tells, tells)
           kept == Projection!Kept(t, cards)
           result == IF s5[t].there THEN Projection!Merged(s5[t].line, new) ELSE new
           f == [there |-> TRUE, text |-> s5[t].text \/ text, cards |-> Projection!Kept(t, s5[t].cards) \cup kept,
                 line |-> result, tells |-> all]
<1>1. full \in Lines /\ full.known /\ full.scope = line.scope /\ \A d \in full.deps : d < t
  BY DEF Lines
<1>2. Covers(s5, full, tells)
  OBVIOUS
<1> HIDE DEF full
<1>3. /\ new \in Lines /\ new.known /\ new.scope = line.scope /\ Covers(s5, new, tells)
      /\ \A d \in new.deps : d < t
  BY <1>1, <1>2, WithFactsCovers
<1>4. /\ s5[t] \in Messages /\ s5[t].line \in Lines /\ s5[t].tells \in Told /\ MsgInv(t)
      /\ s5[t].text \in BOOLEAN /\ s5[t].cards \subseteq Projection!Tool
  BY DEF ProjectionInv, ProjectionTypes, Messages
<1>5. /\ all.subjects = s5[t].tells.subjects \cup tells.subjects
      /\ all.scopes = s5[t].tells.scopes \cup tells.scopes /\ all \in Told
  BY <1>4 DEF Projection!And, Told
<1>6. Projection!Kept(t, s5[t].cards) \subseteq Projection!Tool /\ kept \subseteq Projection!Tool
  BY <1>4 DEF Projection!Kept
<1>7. Projection!Finalized(t, text, cards, line, deps, tells) = s5[t] \/
      Projection!Finalized(t, text, cards, line, deps, tells) = f
  BY <1>3 DEF Projection!Finalized, full
<1> HIDE DEF new, all, kept
<1>8. /\ result \in Lines /\ result.known /\ Covers(s5, result, all)
      /\ result.scope = IF line.scope # 0 THEN line.scope ELSE s5[t].line.scope
      /\ \A d \in result.deps : d < t
  <2>1. CASE s5[t].there
    <3>1. s5[t].line.known /\ result = Projection!Union(s5[t].line, new)
      BY <1>3, <1>4, <2>1 DEF MsgInv, Projection!Merged
    <3>2. s5[t].line.scope = 0 \/ new.scope = 0
      BY <1>3
    <3>3. Covers(s5, s5[t].line, s5[t].tells) /\ \A d \in s5[t].line.deps : d < t
      BY <1>4 DEF MsgInv
    <3> DEFINE old == s5[t].line
               ta == s5[t].tells
    <3>4. /\ old \in Lines /\ ta \in Told /\ Covers(s5, old, ta) /\ (old.scope = 0 \/ new.scope = 0)
          /\ all.subjects \subseteq ta.subjects \cup tells.subjects
          /\ all.scopes \subseteq ta.scopes \cup tells.scopes /\ result = Projection!Union(old, new)
      BY <1>4, <1>5, <3>1, <3>2, <3>3
    <3>5. /\ \A d \in old.deps : d < t
          /\ s5[t].line.scope = old.scope
      BY <3>3
    <3> HIDE DEF old, ta, result
    <3>6. /\ Projection!Union(old, new) \in Lines /\ Projection!Union(old, new).known
          /\ Projection!Union(old, new).deps = old.deps \cup new.deps
          /\ Projection!Union(old, new).scope = IF old.scope # 0 THEN old.scope ELSE new.scope
          /\ Covers(s5, Projection!Union(old, new), all)
      BY <1>3, <3>4, UnionCovers
    <3> QED BY <1>3, <3>2, <3>4, <3>5, <3>6
  <2>2. CASE ~s5[t].there
    <3>1. result = new /\ s5[t].tells.subjects = {} /\ s5[t].tells.scopes = {} /\ s5[t].line.scope = 0
      BY <1>4, <2>2 DEF MsgInv, Projection!NoMsg, Projection!NoTells, Projection!NoLine
    <3>2. Covers(s5, new, all)
      BY <1>3, <1>5, <3>1 DEF Covers
    <3> QED BY <1>3, <3>1, <3>2
  <2> QED BY <2>1, <2>2
<1> HIDE DEF result
<1>9. f \in Messages
  BY <1>4, <1>5, <1>6, <1>8 DEF Messages
<1>10. /\ f.there /\ f.line = result /\ f.tells = all
  OBVIOUS
<1> HIDE DEF f
<1>11. /\ s5[t].tells.subjects \subseteq f.tells.subjects
       /\ s5[t].tells.scopes \subseteq f.tells.scopes
  BY <1>5, <1>10
<1> QED BY <1>7, <1>8, <1>9, <1>10, <1>11

\* The finaliser writes the message of one turn, whose stream runs on or ends.
LEMMA MessageMoves ==
    ASSUME ProjectionInv, NEW t \in Turns, NEW f, UNCHANGED <<s1, s2, s6, s7>>,
           s5' = [s5 EXCEPT ![t] = f],
           s4[t].at \in {"open", "ended"},
           s4' = s4 \/ s4' = [s4 EXCEPT ![t] = Projection!Ended],
           \/ f = s5[t]
           \/ /\ f \in Messages /\ f.there /\ f.line.known
              /\ s4' = s4 /\ s4[t].at = "open" => f.line.scope = 0
              /\ \A d \in f.line.deps : d < t
              /\ Covers(s5, f.line, f.tells)
              /\ s5[t].tells.subjects \subseteq f.tells.subjects
              /\ s5[t].tells.scopes \subseteq f.tells.scopes
    PROVE  ProjectionInv'
<1>1. /\ ProjectionTypes /\ s5[t] \in Messages /\ RunInv(t) /\ MsgInv(t) /\ ActInv(t)
      /\ s7.line.deps \subseteq Turns /\ s4[t].deps \subseteq Turns /\ Covers(s5, s7.line, s7.tells)
  BY DEF ProjectionInv, ProjectionTypes, Lines, Runs
<1>2. f \in Messages /\ f.line \in Lines /\ f.line.deps \subseteq Turns
  BY <1>1 DEF Messages, Lines
<1>3. /\ Covers(s5, f.line, f.tells) /\ \A d \in f.line.deps : d < t
      /\ s5[t].tells.subjects \subseteq f.tells.subjects
      /\ s5[t].tells.scopes \subseteq f.tells.scopes
      /\ f.there => f.line.known
      /\ ~f.there => f = Projection!NoMsg
      /\ s4' = s4 /\ s4[t].at = "open" => f.line.scope = 0
  BY <1>1 DEF MsgInv
<1>4. s5'[t] = f /\ \A u \in Turns \ {t} : s5'[u] = s5[u]
  BY <1>1 DEF ProjectionTypes
<1>5. \A d \in Turns : /\ s5[d].tells.subjects \subseteq s5'[d].tells.subjects
                       /\ s5[d].tells.scopes \subseteq s5'[d].tells.scopes
  BY <1>3, <1>4
<1>6. Covers(s5', f.line, f.tells) /\ Covers(s5', s7.line, s7.tells)
  BY <1>1, <1>2, <1>3, <1>5, CoverGrows
<1>7. Projection!Ended \in Runs /\ Projection!Ended.at = "ended" /\ Projection!Ended.deps = {}
      /\ ~Projection!Ended.bound /\ Projection!Ended.told.subjects = {} /\ Projection!Ended.told.scopes = {}
      /\ Projection!Ended.tells.subjects = {} /\ Projection!Ended.tells.scopes = {}
  BY DEF Projection!Ended, Projection!NoRun, Projection!NoTells, Runs, Told
<1>8. \A u \in Turns \ {t} : s4'[u] = s4[u]
  BY <1>1 DEF ProjectionTypes
<1>9. s4' \in [Turns -> Runs] /\ s5' \in [Turns -> Messages]
  BY <1>1, <1>2, <1>7 DEF ProjectionTypes
<1>10. ProjectionTypes'
  BY <1>1, <1>9 DEF ProjectionTypes
<1>11. s4'[t] = s4[t] \/ s4'[t] = Projection!Ended
  BY <1>1 DEF ProjectionTypes
<1>12. s4'[t].at \in {"open", "ended"} /\ \A u \in Turns : u < t => s4'[u].at # "idle"
  BY <1>1, <1>7, <1>8, <1>11 DEF RunInv, Turns
<1>13. RunInv(t)'
  <2>1. CASE s4'[t] = Projection!Ended
    BY <1>7, <1>12, <2>1 DEF RunInv
  <2>2. CASE s4'[t] = s4[t]
    <3>1. /\ \A x \in s4[t].told.subjects : ToldSubject(s5', x, s4[t].deps)
          /\ \A x \in s4[t].tells.subjects : x \in s4[t].subjects \/ ToldSubject(s5', x, s4[t].deps)
      BY <1>1, <1>5 DEF RunInv, ToldSubject
    <3>2. /\ \A x \in s4[t].told.scopes : ToldScope(s5', x, s4[t].deps)
          /\ \A x \in s4[t].tells.scopes :
               (s4[t].bound /\ x = s4[t].scope) \/ ToldScope(s5', x, s4[t].deps)
      BY <1>1, <1>5 DEF RunInv, ToldScope
    <3> QED BY <1>1, <1>12, <2>2, <3>1, <3>2 DEF RunInv
  <2> QED BY <1>11, <2>1, <2>2
<1>14. s4'[t].at = "open" => f.line.scope = 0
  <2>1. CASE s4' = s4
    BY <1>3, <2>1
  <2>2. CASE s4' = [s4 EXCEPT ![t] = Projection!Ended]
    <3>1. s4'[t] = Projection!Ended
      BY <1>1, <2>2 DEF ProjectionTypes
    <3> QED BY <1>7, <3>1
  <2> QED BY <2>1, <2>2
<1>15. MsgInv(t)'
  BY <1>3, <1>4, <1>6, <1>12, <1>14 DEF MsgInv
<1>16. ActInv(t)'
  BY <1>1, <1>12 DEF ActInv
<1>17. \A u \in Turns \ {t} : s4'[u] = s4[u] /\ s5'[u] = s5[u] /\ s6'[u] = s6[u]
  BY <1>4, <1>8
<1>18. s4[t].at # "idle" => s4'[t].at # "idle"
  BY <1>12
<1>19. Covers(s5, s7.line, s7.tells)'
  BY <1>6
<1> QED BY <1>5, <1>10, <1>13, <1>15, <1>16, <1>17, <1>18, <1>19, ProjectionMoves

\* The lineage of what a stream produced covers what it tells.
LEMMA StreamIsCovered ==
    ASSUME ProjectionInv, NEW t \in Turns, s4[t].at = "open"
    PROVE  LET line == Projection!StreamLine(t)
           IN  /\ line \in Lines /\ line.known /\ \A d \in line.deps \cup s4[t].deps : d < t
               /\ s4[t].deps \in SUBSET Turns /\ s4[t].tells \in Told
               /\ s4[t].cards \in SUBSET Projection!Tool
               /\ Covers(s5, [line EXCEPT !.deps = @ \cup s4[t].deps], s4[t].tells)
<1>1. s4[t] \in Runs /\ RunInv(t)
  BY DEF ProjectionInv, ProjectionTypes
<1> DEFINE line == [known |-> TRUE, tools |-> s4[t].tools, subjects |-> s4[t].subjects,
                    scope |-> IF s4[t].bound THEN s4[t].scope ELSE 0, deps |-> s4[t].deps]
<1>2. Projection!StreamLine(t) = line
  BY DEF Projection!StreamLine, Projection!Line
<1>3. line \in Lines /\ line.known /\ line.deps = s4[t].deps /\ line.subjects = s4[t].subjects
      /\ (s4[t].bound => line.scope = s4[t].scope)
  BY <1>1 DEF Lines, Runs
<1> DEFINE full == [line EXCEPT !.deps = @ \cup s4[t].deps]
<1>4. full.deps = s4[t].deps /\ full.subjects = line.subjects /\ full.scope = line.scope
  BY <1>3
<1> HIDE DEF line, full
<1>5. ASSUME NEW x \in s4[t].tells.subjects PROVE x \in full.subjects \/ ToldSubject(s5, x, full.deps)
  BY <1>1, <1>3, <1>4 DEF RunInv
<1>6. ASSUME NEW x \in s4[t].tells.scopes PROVE x = full.scope \/ ToldScope(s5, x, full.deps)
  BY <1>1, <1>3, <1>4 DEF RunInv
<1>7. Covers(s5, full, s4[t].tells)
  BY <1>5, <1>6 DEF Covers
<1>8. s4[t].deps \in SUBSET Turns /\ s4[t].tells \in Told /\ s4[t].cards \in SUBSET Projection!Tool
      /\ \A d \in s4[t].deps : d < t
  BY <1>1 DEF Runs, RunInv
<1> QED BY <1>2, <1>3, <1>7, <1>8 DEF full

\* A fixed text tells nothing.
LEMMA FixedTextIsCovered ==
    ASSUME NEW deps \in SUBSET Turns
    PROVE  LET line == Projection!Line({}, {}, 0, {})
           IN  /\ line \in Lines /\ line.known /\ line.scope = 0 /\ line.deps = {}
               /\ Projection!NoTells \in Told
               /\ Covers(s5, [line EXCEPT !.deps = @ \cup deps], Projection!NoTells)
  BY DEF Projection!Line, Projection!NoTells, Lines, Told, Covers

\* A turn that ends, whole, with an error or with a client that left.
LEMMA EndStep ==
    ASSUME ProjectionInv, NEW t \in Turns,
           Projection!EndTurn(t) \/ Projection!FailTurn(t) \/ Projection!Disconnect(t)
    PROVE  ProjectionInv'
<1>1. /\ s4[t].at = "open" /\ s4' = [s4 EXCEPT ![t] = Projection!Ended] /\ UNCHANGED <<s1, s2, s6, s7>>
  BY DEF Projection!EndTurn, Projection!FailTurn, Projection!Disconnect
<1>2. /\ s5[t].line.scope = 0 /\ s4 \in [Turns -> Runs] /\ s5 \in [Turns -> Messages] /\ s4[t].deps \subseteq Turns
      /\ \A d \in s4[t].deps : d < t
  BY <1>1 DEF ProjectionInv, MsgInv, ProjectionTypes, Runs, RunInv
<1>3. s4' # s4
  <2>1. s4'[t].at = "ended"
    BY <1>1, <1>2 DEF Projection!Ended, Projection!NoRun
  <2> QED BY <1>1, <2>1
<1> DEFINE line == Projection!StreamLine(t)
           fixed == Projection!Line({}, {}, 0, {})
           whole == Projection!Finalized(t, TRUE, s4[t].cards, line, s4[t].deps, s4[t].tells)
           told == Projection!Finalized(t, TRUE, {}, fixed, s4[t].deps, Projection!NoTells)
           left == Projection!Finalized(t, TRUE, {}, fixed, {}, Projection!NoTells)
           Good(f) == \/ f = s5[t]
                      \/ /\ f \in Messages /\ f.there /\ f.line.known
                         /\ \A d \in f.line.deps : d < t
                         /\ Covers(s5, f.line, f.tells)
                         /\ s5[t].tells.subjects \subseteq f.tells.subjects
                         /\ s5[t].tells.scopes \subseteq f.tells.scopes
<1>4. s5' = [s5 EXCEPT ![t] = whole] \/ s5' = [s5 EXCEPT ![t] = told]
      \/ s5' = [s5 EXCEPT ![t] = left] \/ s5' = [s5 EXCEPT ![t] = s5[t]]
  BY DEF Projection!EndTurn, Projection!FailTurn, Projection!Disconnect
<1>10. ASSUME NEW c \in SUBSET Projection!Tool, NEW d \in SUBSET Turns, NEW l \in Lines, l.known,
              NEW n \in Told, \A e \in l.deps \cup d : e < t,
              Covers(s5, [l EXCEPT !.deps = @ \cup d], n)
       PROVE  Good(Projection!Finalized(t, TRUE, c, l, d, n))
  <2> DEFINE f == Projection!Finalized(t, TRUE, c, l, d, n)
  <2>1. \/ f = s5[t]
        \/ /\ f \in Messages /\ f.there /\ f.line.known
           /\ f.line.scope = IF l.scope # 0 THEN l.scope ELSE s5[t].line.scope
           /\ \A e \in f.line.deps : e < t
           /\ Covers(s5, f.line, f.tells)
           /\ s5[t].tells.subjects \subseteq f.tells.subjects
           /\ s5[t].tells.scopes \subseteq f.tells.scopes
    BY <1>2, <1>10, FinalizedCovers
  <2> QED BY <2>1
<1>5. Good(whole)
  <2> HIDE DEF line
  <2>1. /\ line \in Lines /\ line.known /\ \A d \in line.deps \cup s4[t].deps : d < t
        /\ s4[t].deps \in SUBSET Turns /\ s4[t].tells \in Told
        /\ s4[t].cards \in SUBSET Projection!Tool
        /\ Covers(s5, [line EXCEPT !.deps = @ \cup s4[t].deps], s4[t].tells)
    BY <1>1, StreamIsCovered DEF line
  <2> QED BY <1>2, <1>10, <2>1
<1>6. Good(told)
  <2> HIDE DEF fixed
  <2>1. /\ fixed \in Lines /\ fixed.known /\ fixed.scope = 0 /\ fixed.deps = {}
        /\ Projection!NoTells \in Told
        /\ Covers(s5, [fixed EXCEPT !.deps = @ \cup s4[t].deps], Projection!NoTells)
    BY <1>2, FixedTextIsCovered DEF fixed
  <2>2. \A d \in fixed.deps \cup s4[t].deps : d < t
    BY <1>2, <2>1
  <2> QED BY <1>2, <1>10, <2>1, <2>2
<1>7. Good(left)
  <2> HIDE DEF fixed
  <2> DEFINE none == {}
  <2>1. /\ fixed \in Lines /\ fixed.known /\ fixed.scope = 0 /\ fixed.deps = {}
        /\ Projection!NoTells \in Told
        /\ Covers(s5, [fixed EXCEPT !.deps = @ \cup none], Projection!NoTells)
    BY FixedTextIsCovered DEF fixed
  <2>2. /\ \A d \in fixed.deps \cup none : d < t
        /\ none \in SUBSET Turns /\ none \in SUBSET Projection!Tool
    BY <2>1
  <2>3. left = Projection!Finalized(t, TRUE, none, fixed, none, Projection!NoTells)
    OBVIOUS
  <2> HIDE DEF none, left, Good
  <2>4. Good(Projection!Finalized(t, TRUE, none, fixed, none, Projection!NoTells))
    BY <1>10, <2>1, <2>2
  <2> QED BY <2>3, <2>4
<1>8. ASSUME NEW f, Good(f), s5' = [s5 EXCEPT ![t] = f] PROVE ProjectionInv'
  BY <1>1, <1>3, <1>8, MessageMoves
<1>9. Good(s5[t])
  OBVIOUS
<1> HIDE DEF Good, whole, told, left
<1> QED BY <1>4, <1>5, <1>6, <1>7, <1>8, <1>9

\* The outcome of a deletion is written to its message.
LEMMA OutcomeStep ==
    ASSUME ProjectionInv, NEW t \in Turns, Projection!ShowOutcome(t)
    PROVE  ProjectionInv'
<1> DEFINE act == Projection!ActLine(t)
           named == [Projection!NoTells EXCEPT !.subjects = s6[t].subjects]
           tells == IF Projection!LineAllowed(act) THEN named ELSE Projection!NoTells
           f == Projection!Finalized(t, FALSE, {"delete"}, act, {}, tells)
<1>1. s5' = [s5 EXCEPT ![t] = f] /\ UNCHANGED <<s1, s2, s4, s6, s7>>
  BY DEF Projection!ShowOutcome
<1>2. s4[t].at \in {"open", "ended"} /\ s6[t] \in Actions
  BY DEF Projection!ShowOutcome, Projection!Proved, ProjectionInv, ProjectionTypes, ActInv
<1>3. s4[t].at = "open" => s5[t].line.scope = 0
  BY DEF ProjectionInv, MsgInv
<1> HIDE DEF act
<1>4. act \in Lines /\ act.known /\ act.scope = 0 /\ act.subjects = s6[t].subjects /\ \A d \in act.deps : d < t
  BY ActLineIsPlain DEF act
<1> DEFINE full == [act EXCEPT !.deps = @ \cup {}]
<1>5. full.subjects = act.subjects
  BY <1>4 DEF Lines
<1>6. tells \in Told /\ tells.subjects \subseteq s6[t].subjects /\ tells.scopes = {}
  BY <1>2 DEF Told, Actions, Projection!NoTells
<1> HIDE DEF full, tells
<1>7. Covers(s5, full, tells)
  BY <1>4, <1>5, <1>6 DEF Covers
<1>8. {"delete"} \in SUBSET Projection!Tool /\ FALSE \in BOOLEAN /\ {} \in SUBSET Turns
      /\ \A d \in act.deps \cup {} : d < t
  BY <1>4 DEF Projection!Tool
<1>9. \/ f = s5[t]
      \/ /\ f \in Messages /\ f.there /\ f.line.known
         /\ f.line.scope = IF act.scope # 0 THEN act.scope ELSE s5[t].line.scope
         /\ \A d \in f.line.deps : d < t
         /\ Covers(s5, f.line, f.tells)
         /\ s5[t].tells.subjects \subseteq f.tells.subjects
         /\ s5[t].tells.scopes \subseteq f.tells.scopes
  <2>1. Covers(s5, [act EXCEPT !.deps = @ \cup {}], tells)
    BY <1>7 DEF full
  <2>2. act.scope # 0 => s5[t].line.scope = 0
    BY <1>4
  <2> QED BY <1>4, <1>6, <1>8, <2>1, <2>2, FinalizedCovers
<1> HIDE DEF f
<1> QED BY <1>1, <1>2, <1>3, <1>4, <1>9, MessageMoves

\* A conversation begins with no message.
LEMMA ProjectionStarts == Projection!Init => ProjectionInv
<1> SUFFICES ASSUME Projection!Init PROVE ProjectionInv
  OBVIOUS
<1>1. /\ Projection!NoRun \in Runs /\ Projection!NoMsg \in Messages /\ Projection!NoAct \in Actions
      /\ Projection!NoEntry \in [line : Lines, tells : Told]
  BY DEF Projection!NoRun, Projection!NoMsg, Projection!NoAct, Projection!NoEntry, Projection!NoTells,
         Projection!NoLine, Runs, Messages, Actions, Lines, Told
<1>2. ProjectionTypes
  BY <1>1 DEF Projection!Init, ProjectionTypes, Turns
<1>3. ASSUME NEW t \in Turns
      PROVE  s4[t] = Projection!NoRun /\ s5[t] = Projection!NoMsg /\ s6[t] = Projection!NoAct
  BY DEF Projection!Init, Turns
<1>4. ASSUME NEW t \in Turns PROVE RunInv(t) /\ MsgInv(t) /\ ActInv(t)
  BY <1>3 DEF RunInv, MsgInv, ActInv, Covers, Projection!NoRun, Projection!NoMsg, Projection!NoAct,
              Projection!NoTells, Projection!NoLine
<1>5. Covers(s5, s7.line, s7.tells)
  BY DEF Projection!Init, Projection!NoEntry, Projection!NoTells, Covers
<1> QED BY <1>2, <1>4, <1>5 DEF ProjectionInv

\* Whatever order turns, confirmations and revocations come in, a result is shown, served
\* from the cache or downloaded only while all it derives from is still permitted
\* (result_projection_service.py).
THEOREM NothingRevokedIsTold == Spec => []ProjectionHolds
<1>1. part = "projection" /\ Init => ProjectionInv
  BY ProjectionStarts DEF Init
<1>2. part = "projection" /\ ProjectionInv /\ [Next]_vars => ProjectionInv' /\ (part = "projection")'
  <2> SUFFICES ASSUME part = "projection", ProjectionInv, [Next]_vars
               PROVE  ProjectionInv' /\ (part = "projection")'
    OBVIOUS
  <2>1. [Projection!Next]_Projection!vars /\ (part = "projection")'
    BY DEF Next, vars, from5, from7, from8, from9, Projection!vars
  <2>2. ASSUME UNCHANGED Projection!vars PROVE ProjectionInv'
    BY <2>2 DEF Projection!vars, ProjectionInv, ProjectionTypes, RunInv, MsgInv, ActInv
  <2>3. ASSUME NEW t \in Turns, Projection!ReadRow(t) \/ Projection!ReadCount(t) PROVE ProjectionInv'
    <3>1. s4[t].scope \in {0, 1, 2}
      BY DEF ProjectionInv, ProjectionTypes, Runs
    <3>2. ASSUME Projection!ReadRow(t) PROVE ProjectionInv'
      <4>1. PICK s \in Subject : Projection!Read(t, [subjects |-> {s}, scopes |-> {}])
        <5>1. \A s : Projection!Naming(s) = [subjects |-> {s}, scopes |-> {}]
          BY DEF Projection!Naming, Projection!NoTells
        <5>2. PICK s \in Subject : Projection!Read(t, Projection!Naming(s))
          BY <3>2 DEF Projection!ReadRow
        <5>3. Projection!Naming(s) = [subjects |-> {s}, scopes |-> {}]
          BY <5>1
        <5> QED BY <5>2, <5>3
      <4>2. [subjects |-> {s}, scopes |-> {}] \in Told
        BY DEF Told
      <4> QED BY <4>1, <4>2, ReadStep
    <3>3. ASSUME Projection!ReadCount(t) PROVE ProjectionInv'
      <4>1. Projection!Read(t, [subjects |-> {}, scopes |-> {s4[t].scope}])
        BY <3>3 DEF Projection!ReadCount, Projection!NoTells
      <4>2. s4[t].at = "open"
        BY <4>1 DEF Projection!Read
      <4>3. s4[t].scope # 0
        BY <4>2 DEF ProjectionInv, RunInv
      <4>4. [subjects |-> {}, scopes |-> {s4[t].scope}] \in Told
        BY <3>1, <4>3 DEF Told
      <4> QED BY <4>1, <4>4, ReadStep
    <3> QED BY <2>3, <3>2, <3>3
  <2>4. ASSUME NEW t \in Turns, Projection!Execute(t) \/ Projection!Void(t) PROVE ProjectionInv'
    <3>1. s6[t].st # "none" /\ s6[t].subjects \in SUBSET Subject /\ {} \in SUBSET Subject
      BY <2>4 DEF Projection!Execute, Projection!Void, ProjectionInv, ProjectionTypes, Actions
    <3> QED BY <2>4, <3>1, SettleStep DEF Projection!Execute, Projection!Void
  <2>5. ASSUME Projection!Next PROVE ProjectionInv'
    BY <2>3, <2>4, <2>5, LoadStep, BeginStep, PrepareStep, ClaimStep, EndStep, OutcomeStep, WorldStep
       DEF Projection!Next, Turns
  <2> QED BY <2>1, <2>2, <2>5
<1>3. (part = "projection" => ProjectionInv) => ProjectionHolds
  BY NothingRevoked DEF ProjectionHolds
<1>4. ~(part = "projection") /\ [Next]_vars => ~(part = "projection")'
  BY PartStays
<1> QED BY <1>1, <1>2, <1>3, <1>4, PTL DEF Spec

-----------------------------------------------------------------------------
(* The chat stream *)

Kinds == {"event", "unknown", "field_errors", "stop"}
Frames == {"text", "event", "error", "stop"}
SentFrames == {"text", "event", "error", "done", "failed"}

IoRows == [task : {"run", "closing", "draining", "done"}, drain : {"run", "done"}, beat : BOOLEAN,
           custom : Seq(Kinds), unified : Seq(Frames), sent : Seq(SentFrames),
           events : Nat, known : Nat, text : Nat,
           quiet : BOOLEAN, unknown : BOOLEAN, handoff : BOOLEAN,
           code : {"none", "error", "unknown", "guard_lost"}]

TurnRows == [pc : {"idle", "checked", "screen", "route", "count", "asking", "policy", "begin",
                   "stream", "stopping", "save", "release", "done"},
             text : Stream!Text, agent : {"none", "agent", "default", "routed"}, hit : BOOLEAN]

StreamTypes ==
    /\ s1 \in [Question -> TurnRows]
    /\ s2 \in BOOLEAN
    /\ s6 \in [Question -> [question : BOOLEAN, tools : Nat,
                            answer : {"none", "error", "unknown", "guard_lost", "stopped"}]]
    /\ s7 \in [Question -> IoRows]

\* The places of the events in a queue.
EventsOf(q) == {i \in 1..Len(q) : q[i] = "event"}

\* What the tools emitted is in their queue or known to the collector, and the
\* queue is closed behind the last event.
QueueInv(io) ==
    /\ io.task \in {"run", "closing"} =>
         /\ io.drain = "run" /\ Len(io.custom) = io.events - io.known
         /\ \A i \in 1..Len(io.custom) : io.custom[i] # "stop"
    /\ io.task = "draining" /\ io.drain = "run" =>
         /\ Len(io.custom) = io.events - io.known + 1
         /\ \A i \in 1..Len(io.custom) : io.custom[i] = "stop" <=> i = Len(io.custom)
    /\ io.task = "draining" /\ io.drain = "done" => io.known = io.events
    /\ io.task = "draining" => (io.unknown => io.code = "unknown")
    /\ io.task = "done" => io.drain = "done"

\* Nothing but an error of the heartbeat follows the end of the frames.
FramesInv(io) ==
    \A i \in 1..Len(io.unified) :
      io.unified[i] = "stop" =>
        io.task = "done" /\ \A j \in 1..Len(io.unified) : i < j => io.unified[j] = "error"

\* Unless the client left or the guard was lost, the stream ends when all is known.
WholeInv(t) ==
    s7[t].task = "done" /\ s1[t].pc \notin {"stopping", "release", "done"} =>
      \/ s7[t].code = "guard_lost"
      \/ s7[t].known = s7[t].events /\ (s7[t].unknown => s7[t].code = "unknown")

\* A known event is among the frames, until the loop has ended among those sent.
CountInv(t) ==
    /\ s1[t].pc \notin {"save", "release", "done"} =>
         Cardinality(EventsOf(s7[t].sent \o s7[t].unified)) = s7[t].known
    /\ s1[t].pc = "save" => /\ s7[t].task = "done"
                            /\ Cardinality(EventsOf(s7[t].sent)) = s7[t].known

\* A turn that said "done".
DoneInv(t) ==
    LET q == s7[t].sent IN
    \A i \in 1..Len(q) : q[i] = "done" =>
      /\ s1[t].pc \in {"release", "done"} /\ q[Len(q)] = "done"
      /\ s6[t].tools = Cardinality(EventsOf(q))
      /\ \/ s6[t].tools = s7[t].events /\ (s7[t].unknown => s6[t].answer = "unknown")
         \/ s6[t].answer = "guard_lost"

StreamInv ==
    /\ StreamTypes
    /\ \A t \in Question : QueueInv(s7[t]) /\ FramesInv(s7[t]) /\ WholeInv(t) /\ CountInv(t) /\ DoneInv(t)

\* The suite counts with the instance's copy of the operator.
LEMMA StreamCounts ==
    ASSUME NEW n \in Nat, NEW P
    PROVE  Stream!Cardinality({i \in 1..n : P[i]}) = Cardinality({i \in 1..n : P[i]})
  BY DEF Stream!Cardinality, Stream!IsFiniteSet, Cardinality, IsFiniteSet

\* A frame put into a queue adds to its events if it is one.
LEMMA EventsGrow ==
    ASSUME NEW E, NEW q \in Seq(E), NEW x \in E
    PROVE  /\ Cardinality(EventsOf(q)) \in Nat
           /\ Cardinality(EventsOf(Append(q, x))) =
                Cardinality(EventsOf(q)) + (IF x = "event" THEN 1 ELSE 0)
<1>1. Len(q) \in Nat /\ Len(Append(q, x)) = Len(q) + 1
  OBVIOUS
<1>2. IsFiniteSet(1..Len(q)) /\ EventsOf(q) \subseteq 1..Len(q)
  BY <1>1, FS_Interval DEF EventsOf
<1>3. IsFiniteSet(EventsOf(q)) /\ Cardinality(EventsOf(q)) \in Nat
  BY <1>2, FS_Subset, FS_CardinalityType
<1>4. EventsOf(Append(q, x)) = IF x = "event" THEN EventsOf(q) \cup {Len(q) + 1} ELSE EventsOf(q)
  BY <1>1 DEF EventsOf
<1>5. Len(q) + 1 \notin EventsOf(q)
  BY <1>1 DEF EventsOf
<1>6. Cardinality(EventsOf(q) \cup {Len(q) + 1}) = Cardinality(EventsOf(q)) + 1
  BY <1>3, <1>5, FS_AddElement
<1> QED BY <1>3, <1>4, <1>6

\* Sending a frame moves it from the queue to what was sent.
LEMMA SendMoves ==
    ASSUME NEW E, NEW s \in Seq(E), NEW q \in Seq(E), q # <<>>
    PROVE  Append(s, Head(q)) \o Tail(q) = s \o q
<1>1. Head(q) \in E /\ Tail(q) \in Seq(E) /\ Len(Tail(q)) = Len(q) - 1 /\ Len(q) \in Nat /\ Len(q) # 0 /\ Len(s) \in Nat
  OBVIOUS
<1>2. Append(s, Head(q)) \in Seq(E) /\ Len(Append(s, Head(q))) = Len(s) + 1
  BY <1>1
<1>3. Append(s, Head(q)) \o Tail(q) \in Seq(E) /\ s \o q \in Seq(E)
  BY <1>1, <1>2
<1>4. Len(Append(s, Head(q)) \o Tail(q)) = Len(s \o q)
  BY <1>1, <1>2
<1>5. ASSUME NEW i \in 1..Len(s \o q) PROVE (Append(s, Head(q)) \o Tail(q))[i] = (s \o q)[i]
  <2>1. i \in Nat /\ 1 <= i /\ i <= Len(s) + Len(q)
    BY <1>1
  <2>2. CASE i <= Len(s)
    BY <1>1, <1>2, <2>1, <2>2
  <2>3. CASE i = Len(s) + 1
    BY <1>1, <1>2, <2>1, <2>3
  <2>4. CASE i > Len(s) + 1
    BY <1>1, <1>2, <2>1, <2>4
  <2> QED BY <1>1, <2>1, <2>2, <2>3, <2>4
<1> QED BY <1>3, <1>4, <1>5

\* A frame put behind what waits is put behind what was sent and what waits.
LEMMA AppendBehind ==
    ASSUME NEW E, NEW s \in Seq(E), NEW q \in Seq(E), NEW x \in E
    PROVE  s \o Append(q, x) = Append(s \o q, x)
<1>1. Len(s) \in Nat /\ Len(q) \in Nat /\ s \o q \in Seq(E) /\ Append(q, x) \in Seq(E)
  OBVIOUS
<1>2. s \o Append(q, x) \in Seq(E) /\ Append(s \o q, x) \in Seq(E)
  BY <1>1
<1>3. Len(s \o Append(q, x)) = Len(s) + Len(q) + 1 /\ Len(Append(s \o q, x)) = Len(s) + Len(q) + 1
  BY <1>1
<1>4. ASSUME NEW i \in 1..(Len(s) + Len(q) + 1) PROVE (s \o Append(q, x))[i] = Append(s \o q, x)[i]
  <2>1. CASE i <= Len(s)
    BY <1>1, <2>1
  <2>2. CASE i > Len(s) /\ i <= Len(s) + Len(q)
    BY <1>1, <2>2
  <2>3. CASE i = Len(s) + Len(q) + 1
    BY <1>1, <2>3
  <2> QED BY <1>1, <2>1, <2>2, <2>3
<1> QED BY <1>2, <1>3, <1>4

\* A step of one turn.
LEMMA StreamMoves ==
    ASSUME StreamInv, StreamTypes', NEW t \in Question,
           \A u \in Question \ {t} : s1'[u] = s1[u] /\ s6'[u] = s6[u] /\ s7'[u] = s7[u],
           QueueInv(s7[t])', FramesInv(s7[t])', WholeInv(t)', CountInv(t)', DoneInv(t)'
    PROVE  StreamInv'
<1>1. ASSUME NEW u \in Question \ {t}
      PROVE  QueueInv(s7[u])' /\ FramesInv(s7[u])' /\ WholeInv(u)' /\ CountInv(u)' /\ DoneInv(u)'
  <2>1. QueueInv(s7[u]) /\ FramesInv(s7[u]) /\ WholeInv(u) /\ CountInv(u) /\ DoneInv(u)
    BY DEF StreamInv
  <2>2. s1'[u] = s1[u] /\ s6'[u] = s6[u] /\ s7'[u] = s7[u]
    OBVIOUS
  <2>3. QueueInv(s7[u])' /\ FramesInv(s7[u])'
    BY <2>1, <2>2 DEF QueueInv, FramesInv
  <2>4. WholeInv(u)' /\ CountInv(u)'
    BY <2>1, <2>2 DEF WholeInv, CountInv
  <2>5. DoneInv(u)'
    BY <2>1, <2>2 DEF DoneInv
  <2> QED BY <2>3, <2>4, <2>5
<1> QED BY <1>1 DEF StreamInv

\* A question on its way to the stream, or away from it, has no frames.
LEMMA StreamAdmits ==
    ASSUME StreamInv, StreamTypes', NEW t \in Question, s6' = s6, s7' = s7,
           \A u \in Question \ {t} : s1'[u] = s1[u],
           s1[t].pc \notin {"stream", "stopping", "save", "release", "done"},
           s1'[t].pc \notin {"save", "release"}
    PROVE  StreamInv'
<1>1. QueueInv(s7[t]) /\ FramesInv(s7[t]) /\ WholeInv(t) /\ CountInv(t) /\ DoneInv(t)
  BY DEF StreamInv
<1>2. QueueInv(s7[t])' /\ FramesInv(s7[t])' /\ WholeInv(t)'
  BY <1>1 DEF QueueInv, FramesInv, WholeInv
<1>3. CountInv(t)' /\ DoneInv(t)'
  BY <1>1 DEF CountInv, DoneInv
<1> QED BY <1>2, <1>3, StreamMoves

\* A step of the tasks that leaves the loop and what was sent alone, and puts at most one
\* frame into the queue before its end.
LEMMA StreamIo ==
    ASSUME StreamInv, NEW t \in Question, NEW r \in IoRows, UNCHANGED <<s1, s2, s6>>,
           s7' = [s7 EXCEPT ![t] = r], s7[t].task # "done", r.sent = s7[t].sent,
           \/ r.unified = s7[t].unified /\ r.known = s7[t].known
           \/ \E x \in Frames : /\ r.unified = Append(s7[t].unified, x)
                                /\ r.known = s7[t].known + (IF x = "event" THEN 1 ELSE 0)
                                /\ x = "stop" => r.task = "done",
           s1[t].pc \in {"stream", "stopping"} \/ (r.events = s7[t].events /\ r.unknown = s7[t].unknown),
           QueueInv(r), r.task = "done" => r.known = r.events /\ (r.unknown => r.code = "unknown")
    PROVE  StreamInv'
<1>1. /\ StreamTypes /\ s7[t] \in IoRows /\ QueueInv(s7[t]) /\ FramesInv(s7[t])
      /\ WholeInv(t) /\ CountInv(t) /\ DoneInv(t)
  BY DEF StreamInv, StreamTypes
<1>2. s7'[t] = r /\ \A u \in Question \ {t} : s7'[u] = s7[u]
  BY <1>1 DEF StreamTypes
<1>3. StreamTypes'
  BY <1>1 DEF StreamTypes
<1>4. s7[t].unified \in Seq(Frames) /\ s7[t].sent \in Seq(SentFrames) /\ s7[t].known \in Nat
  BY <1>1 DEF IoRows
<1>5. \A i \in 1..Len(s7[t].unified) : s7[t].unified[i] # "stop"
  BY <1>1 DEF FramesInv
<1>6. FramesInv(r)
  <2>1. CASE r.unified = s7[t].unified
    BY <1>5, <2>1 DEF FramesInv
  <2>2. ASSUME NEW x \in Frames, r.unified = Append(s7[t].unified, x), x = "stop" => r.task = "done"
        PROVE  FramesInv(r)
    <3> DEFINE q == s7[t].unified
    <3>1. q \in Seq(Frames) /\ \A i \in 1..Len(q) : q[i] # "stop"
      BY <1>4, <1>5
    <3>2. r.unified = Append(q, x)
      BY <2>2
    <3> HIDE DEF q
    <3>3. /\ Len(Append(q, x)) = Len(q) + 1 /\ Len(q) \in Nat /\ Append(q, x)[Len(q) + 1] = x
          /\ \A i \in 1..Len(q) : Append(q, x)[i] = q[i]
      BY <3>1
    <3> QED BY <2>2, <3>1, <3>2, <3>3 DEF FramesInv
  <2> QED BY <2>1, <2>2
<1>7. Cardinality(EventsOf(s7[t].sent \o s7[t].unified)) = s7[t].known
        => Cardinality(EventsOf(r.sent \o r.unified)) = r.known
  <2>1. CASE r.unified = s7[t].unified /\ r.known = s7[t].known
    BY <2>1
  <2>2. ASSUME NEW x \in Frames, r.unified = Append(s7[t].unified, x),
               r.known = s7[t].known + (IF x = "event" THEN 1 ELSE 0)
        PROVE  Cardinality(EventsOf(s7[t].sent \o s7[t].unified)) = s7[t].known
                 => Cardinality(EventsOf(r.sent \o r.unified)) = r.known
    <3> DEFINE E == Frames \cup SentFrames
               q == s7[t].sent \o s7[t].unified
    <3>1. s7[t].sent \in Seq(E) /\ s7[t].unified \in Seq(E) /\ x \in E
      BY <1>4
    <3>3. q \in Seq(E)
      BY <3>1
    <3> HIDE DEF E
    <3>2. r.sent \o r.unified = Append(q, x)
      <4> DEFINE a == s7[t].sent
                 b == s7[t].unified
      <4>2. a \in Seq(E) /\ b \in Seq(E) /\ x \in E
        BY <3>1
      <4> HIDE DEF a, b
      <4>3. a \o Append(b, x) = Append(a \o b, x)
        BY <4>2, AppendBehind
      <4>1. s7[t].sent \o Append(s7[t].unified, x) = Append(s7[t].sent \o s7[t].unified, x)
        BY <4>3 DEF a, b
      <4> QED BY <2>2, <4>1
    <3> HIDE DEF q
    <3>4. Cardinality(EventsOf(Append(q, x))) = Cardinality(EventsOf(q)) + (IF x = "event" THEN 1 ELSE 0)
      BY <3>1, <3>3, EventsGrow
    <3> QED BY <2>2, <3>2, <3>4 DEF q
  <2> QED BY <2>1, <2>2
<1>8. WholeInv(t)'
  BY <1>2 DEF WholeInv
<1>9. CountInv(t)'
  BY <1>1, <1>2, <1>7 DEF CountInv
<1>10. DoneInv(t)'
  BY <1>1, <1>2 DEF DoneInv
<1>11. QueueInv(s7[t])' /\ FramesInv(s7[t])'
  BY <1>2, <1>6
<1>12. \A u \in Question \ {t} : s1'[u] = s1[u] /\ s6'[u] = s6[u] /\ s7'[u] = s7[u]
  BY <1>2
<1> QED BY <1>3, <1>8, <1>9, <1>10, <1>11, <1>12, StreamMoves

\* The steps of the producer.
LEMMA ProducerStep ==
    ASSUME StreamInv, NEW t \in Question,
           \/ Stream!SayText(t) \/ Stream!ErrorFrame(t) \/ Stream!HandOff(t) \/ Stream!Break(t)
           \/ Stream!Finish(t) \/ \E kind \in {"event", "unknown", "field_errors"} : Stream!Emit(t, kind)
    PROVE  StreamInv'
<1> DEFINE io == s7[t]
<1>1. StreamTypes /\ io \in IoRows /\ QueueInv(io)
  BY DEF StreamInv, StreamTypes
<1>2. /\ io.unified \in Seq(Frames) /\ io.custom \in Seq(Kinds) /\ io.events \in Nat /\ io.known \in Nat
      /\ io.text \in Nat
  BY <1>1 DEF IoRows
<1>3. io.task = "run" /\ s1[t].pc = "stream" /\ UNCHANGED <<s1, s2, s6>>
  BY DEF Stream!SayText, Stream!ErrorFrame, Stream!HandOff, Stream!Break, Stream!Finish, Stream!Emit, Stream!Streaming,
         Stream!redis
<1>4. ASSUME Stream!SayText(t) PROVE StreamInv'
  <2> DEFINE r == [io EXCEPT !.text = @ + 1, !.unified = Stream!Shown(io)]
  <2>1. s7' = [s7 EXCEPT ![t] = r]
    BY <1>1, <1>4 DEF Stream!SayText
  <2>2. Stream!Shown(io) = io.unified \/ Stream!Shown(io) = Append(io.unified, "text")
    BY DEF Stream!Shown, Stream!Put
  <2>11. "text" \in Frames
    BY DEF Frames
  <2>3. Stream!Shown(io) \in Seq(Frames)
    <3>1. Append(io.unified, "text") \in Seq(Frames)
      BY <1>2, <2>11
    <3> QED BY <1>2, <2>2, <3>1
  <2>12. io.text + 1 \in Nat
    BY <1>2
  <2>4. r \in IoRows
    <3> DEFINE n == io.text + 1
               f == Stream!Shown(io)
    <3> HIDE DEF n, f
    <3>1. [io EXCEPT !.text = n, !.unified = f] \in IoRows
      BY <1>1, <2>3, <2>12 DEF IoRows, n, f
    <3> QED BY <3>1 DEF n, f
  <2>5. /\ r.sent = io.sent /\ r.unified = Stream!Shown(io) /\ r.known = io.known /\ r.events = io.events
        /\ r.unknown = io.unknown /\ r.task = io.task /\ r.drain = io.drain /\ r.custom = io.custom
        /\ r.code = io.code
    BY <1>1 DEF IoRows
  <2> HIDE DEF r
  <2>6. QueueInv(r)
    BY <1>1, <2>5 DEF QueueInv
  <2>7. CASE r.unified = Append(io.unified, "text")
    <3>1. r.known = io.known + (IF "text" = "event" THEN 1 ELSE 0)
      BY <1>2, <2>5
    <3> QED BY <1>3, <2>1, <2>4, <2>5, <2>6, <2>7, <2>11, <3>1, StreamIo
  <2>8. CASE r.unified = io.unified
    BY <1>3, <2>1, <2>4, <2>5, <2>6, <2>8, StreamIo
  <2> QED BY <2>2, <2>5, <2>7, <2>8
<1>5. ASSUME Stream!HandOff(t) \/ Stream!Finish(t) PROVE StreamInv'
  <2>1. PICK r : /\ s7' = [s7 EXCEPT ![t] = r]
                 /\ r = [io EXCEPT !.handoff = ~@] \/ r = [io EXCEPT !.task = "closing"]
    <3>1. CASE Stream!HandOff(t)
      BY <3>1 DEF Stream!HandOff
    <3>2. CASE Stream!Finish(t)
      BY <3>2 DEF Stream!Finish
    <3> QED BY <1>5, <3>1, <3>2
  <2>2. r \in IoRows
    BY <1>1, <2>1 DEF IoRows
  <2>3. /\ r.sent = io.sent /\ r.unified = io.unified /\ r.known = io.known /\ r.events = io.events
        /\ r.unknown = io.unknown /\ r.task \in {"run", "closing"} /\ r.drain = io.drain
        /\ r.custom = io.custom /\ r.code = io.code
    BY <1>1, <1>3, <2>1 DEF IoRows
  <2>4. QueueInv(r)
    BY <1>1, <1>3, <2>3 DEF QueueInv
  <2> QED BY <1>3, <2>1, <2>2, <2>3, <2>4, StreamIo
<1>8. ASSUME Stream!ErrorFrame(t) PROVE StreamInv'
  <2> DEFINE r == [io EXCEPT !.text = @ + 1, !.code = "error", !.unified = Append(@, "error")]
  <2>1. s7' = [s7 EXCEPT ![t] = r]
    BY <1>1, <1>8 DEF Stream!ErrorFrame, Stream!Put
  <2>2. "error" \in Frames
    BY DEF Frames
  <2>3. Append(io.unified, "error") \in Seq(Frames) /\ io.text + 1 \in Nat
    BY <1>2, <2>2
  <2>4. r \in IoRows
    <3> DEFINE n == io.text + 1
               f == Append(io.unified, "error")
    <3> HIDE DEF n, f
    <3>1. [io EXCEPT !.text = n, !.code = "error", !.unified = f] \in IoRows
      BY <1>1, <2>3 DEF IoRows, n, f
    <3> QED BY <3>1 DEF n, f
  <2>5. /\ r.sent = io.sent /\ r.unified = Append(io.unified, "error") /\ r.known = io.known
        /\ r.events = io.events /\ r.unknown = io.unknown /\ r.task = "run" /\ r.drain = io.drain
        /\ r.custom = io.custom
    BY <1>1, <1>3 DEF IoRows
  <2> HIDE DEF r
  <2>6. QueueInv(r)
    BY <1>1, <1>3, <2>5 DEF QueueInv
  <2>7. r.known = io.known + (IF "error" = "event" THEN 1 ELSE 0)
    BY <1>2, <2>5
  <2> QED BY <1>3, <2>1, <2>2, <2>4, <2>5, <2>6, <2>7, StreamIo
<1>6. ASSUME Stream!Break(t) PROVE StreamInv'
  <2>1. PICK u \in BOOLEAN : s7' = [s7 EXCEPT ![t].task = "closing",
                          ![t].unknown = @ \/ u, ![t].quiet = @ \/ u, ![t].handoff = @ \/ u,
                          ![t].code = "error", ![t].unified = Append(@, "error")]
    BY <1>6 DEF Stream!Break, Stream!Put
  <2> DEFINE r == [io EXCEPT !.task = "closing", !.unknown = @ \/ u, !.quiet = @ \/ u, !.handoff = @ \/ u,
                             !.code = "error", !.unified = Append(@, "error")]
  <2>2. s7' = [s7 EXCEPT ![t] = r]
    BY <1>1, <2>1
  <2>8. "error" \in Frames
    BY DEF Frames
  <2>3. Append(io.unified, "error") \in Seq(Frames)
    BY <1>2, <2>8
  <2>9. (io.unknown \/ u) \in BOOLEAN /\ (io.quiet \/ u) \in BOOLEAN /\ (io.handoff \/ u) \in BOOLEAN
    OBVIOUS
  <2>4. r \in IoRows
    <3> DEFINE a == io.unknown \/ u
               b == io.quiet \/ u
               c == io.handoff \/ u
               f == Append(io.unified, "error")
    <3> HIDE DEF a, b, c, f
    <3>1. [io EXCEPT !.task = "closing", !.unknown = a, !.quiet = b, !.handoff = c,
                     !.code = "error", !.unified = f] \in IoRows
      BY <1>1, <2>3, <2>9 DEF IoRows, a, b, c, f
    <3> QED BY <3>1 DEF a, b, c, f
  <2>5. /\ r.sent = io.sent /\ r.unified = Append(io.unified, "error") /\ r.known = io.known
        /\ r.events = io.events /\ r.task = "closing" /\ r.drain = io.drain /\ r.custom = io.custom
    BY <1>1 DEF IoRows
  <2> HIDE DEF r
  <2>6. QueueInv(r)
    BY <1>1, <1>3, <2>5 DEF QueueInv
  <2>7. "error" \in Frames /\ r.known = io.known + (IF "error" = "event" THEN 1 ELSE 0)
    BY <1>2, <2>5 DEF Frames
  <2> QED BY <1>3, <2>2, <2>4, <2>5, <2>6, <2>7, StreamIo
<1>7. ASSUME NEW kind \in {"event", "unknown", "field_errors"}, Stream!Emit(t, kind) PROVE StreamInv'
  <2> DEFINE r == [io EXCEPT !.events = @ + 1, !.custom = Append(@, kind), !.unknown = @ \/ kind = "unknown",
                             !.quiet = @ \/ kind \in {"unknown", "field_errors"}]
  <2>1. s7' = [s7 EXCEPT ![t] = r]
    BY <1>1, <1>7 DEF Stream!Emit, Stream!Put
  <2>2. Append(io.custom, kind) \in Seq(Kinds)
    BY <1>2 DEF Kinds
  <2>8. io.events + 1 \in Nat /\ (io.unknown \/ kind = "unknown") \in BOOLEAN
        /\ (io.quiet \/ kind \in {"unknown", "field_errors"}) \in BOOLEAN
    BY <1>2
  <2>3. r \in IoRows
    <3> DEFINE n == io.events + 1
               f == Append(io.custom, kind)
               a == io.unknown \/ kind = "unknown"
               b == io.quiet \/ kind \in {"unknown", "field_errors"}
    <3> HIDE DEF n, f, a, b
    <3>1. [io EXCEPT !.events = n, !.custom = f, !.unknown = a, !.quiet = b] \in IoRows
      BY <1>1, <2>2, <2>8 DEF IoRows, n, f, a, b
    <3> QED BY <3>1 DEF n, f, a, b
  <2>4. /\ r.sent = io.sent /\ r.unified = io.unified /\ r.known = io.known
        /\ r.events = io.events + 1 /\ r.task = "run" /\ r.drain = io.drain
        /\ r.custom = Append(io.custom, kind)
    BY <1>1, <1>3 DEF IoRows
  <2> HIDE DEF r
  <2>5. /\ io.drain = "run" /\ Len(io.custom) = io.events - io.known
        /\ \A i \in 1..Len(io.custom) : io.custom[i] # "stop"
    BY <1>1, <1>3 DEF QueueInv
  <2>6. Len(r.custom) = r.events - r.known /\ \A i \in 1..Len(r.custom) : r.custom[i] # "stop"
    <3> DEFINE q == io.custom
    <3>1. q \in Seq(Kinds) /\ kind \in Kinds /\ Len(q) = io.events - io.known
          /\ \A i \in 1..Len(q) : q[i] # "stop"
      BY <1>2, <2>5 DEF Kinds
    <3>2. r.custom = Append(q, kind)
      BY <2>4
    <3> HIDE DEF q
    <3>3. /\ Len(Append(q, kind)) = Len(q) + 1 /\ Len(q) \in Nat /\ Append(q, kind)[Len(q) + 1] = kind
          /\ \A i \in 1..Len(q) : Append(q, kind)[i] = q[i]
      BY <3>1
    <3>4. Len(r.custom) = r.events - r.known
      BY <1>2, <2>4, <3>1, <3>2, <3>3
    <3>5. kind # "stop"
      OBVIOUS
    <3>6. \A i \in 1..(Len(q) + 1) : i \in 1..Len(q) \/ i = Len(q) + 1
      BY <3>3
    <3>7. \A i \in 1..Len(r.custom) : r.custom[i] # "stop"
      BY <3>1, <3>2, <3>3, <3>5, <3>6
    <3> QED BY <3>4, <3>7
  <2>7. QueueInv(r)
    BY <2>4, <2>5, <2>6 DEF QueueInv
  <2> QED BY <1>3, <2>1, <2>3, <2>4, <2>7, StreamIo
<1> QED BY <1>4, <1>5, <1>6, <1>7, <1>8


\* A frame put behind what waits adds to the events if it is one.
LEMMA PutBehind ==
    ASSUME NEW s \in Seq(SentFrames), NEW q \in Seq(Frames), NEW x \in Frames
    PROVE  /\ Append(q, x) \in Seq(Frames)
           /\ Cardinality(EventsOf(s \o q)) \in Nat
           /\ Cardinality(EventsOf(s \o Append(q, x))) =
                Cardinality(EventsOf(s \o q)) + (IF x = "event" THEN 1 ELSE 0)
<1> DEFINE E == Frames \cup SentFrames
           all == s \o q
<1>1. s \in Seq(E) /\ q \in Seq(E) /\ x \in E
  OBVIOUS
<1>2. all \in Seq(E)
  BY <1>1
<1> HIDE DEF E
<1>3. s \o Append(q, x) = Append(all, x)
  BY <1>1, AppendBehind
<1> HIDE DEF all
<1>4. /\ Cardinality(EventsOf(all)) \in Nat
      /\ Cardinality(EventsOf(Append(all, x))) =
           Cardinality(EventsOf(all)) + (IF x = "event" THEN 1 ELSE 0)
  BY <1>1, <1>2, EventsGrow
<1>5. Append(q, x) \in Seq(Frames)
  OBVIOUS
<1> QED BY <1>3, <1>4, <1>5 DEF all

\* Closing the queue, and what the drain does.
LEMMA DrainStep ==
    ASSUME StreamInv, NEW t \in Question, Stream!Close(t) \/ Stream!Drain(t) \/ Stream!Drained(t)
    PROVE  StreamInv'
<1> DEFINE io == s7[t]
           q == io.custom
<1>1. StreamTypes /\ io \in IoRows /\ QueueInv(io) /\ UNCHANGED <<s1, s2, s6>>
  BY DEF StreamInv, StreamTypes, Stream!Close, Stream!Drain, Stream!Drained, Stream!redis
<1>2. /\ io.unified \in Seq(Frames) /\ q \in Seq(Kinds) /\ io.events \in Nat /\ io.known \in Nat
      /\ Len(q) \in Nat
  BY <1>1 DEF IoRows
<1>3. "stop" \in Frames /\ "event" \in Frames /\ "stop" \in Kinds
  BY DEF Frames, Kinds
<1>4. ASSUME Stream!Close(t) PROVE StreamInv'
  <2> DEFINE c == IF io.unknown THEN "unknown" ELSE io.code
             f == Append(q, "stop")
             r == [io EXCEPT !.custom = f, !.task = "draining", !.code = c]
  <2>1. io.task = "closing"
    BY <1>4 DEF Stream!Close
  <2>2. s7' = [s7 EXCEPT ![t] = r]
    <3>1. s7' = [s7 EXCEPT ![t] = Stream!CloseCustom([io EXCEPT !.code = c])]
      BY <1>1, <1>4 DEF Stream!Close, StreamTypes
    <3>2. Stream!CloseCustom([io EXCEPT !.code = c]) = r
      BY <1>1 DEF Stream!CloseCustom, Stream!Put, Stream!Stop, IoRows
    <3> QED BY <3>1, <3>2
  <2>3. /\ f \in Seq(Kinds) /\ Len(f) = Len(q) + 1 /\ f[Len(q) + 1] = "stop"
        /\ \A i \in 1..Len(q) : f[i] = q[i]
    BY <1>2, <1>3
  <2>4. c \in {"none", "error", "unknown", "guard_lost"} /\ (io.unknown => c = "unknown")
    BY <1>1 DEF IoRows
  <2> HIDE DEF c, f
  <2>5. r \in IoRows
    BY <1>1, <2>3, <2>4 DEF IoRows
  <2>6. /\ r.sent = io.sent /\ r.unified = io.unified /\ r.known = io.known /\ r.events = io.events
        /\ r.unknown = io.unknown /\ r.task = "draining" /\ r.drain = io.drain
        /\ r.custom = f /\ r.code = c
    BY <1>1 DEF IoRows
  <2> HIDE DEF r
  <2>7. /\ io.drain = "run" /\ Len(q) = io.events - io.known
        /\ \A i \in 1..Len(q) : q[i] # "stop"
    BY <1>1, <2>1 DEF QueueInv
  <2>8. Len(f) = r.events - r.known + 1 /\ \A i \in 1..Len(f) : f[i] = "stop" <=> i = Len(f)
    <3>1. Len(f) = r.events - r.known + 1
      BY <1>2, <2>3, <2>6, <2>7
    <3>2. ASSUME NEW i \in 1..Len(f) PROVE f[i] = "stop" <=> i = Len(f)
      <4>1. i \in 1..Len(q) \/ i = Len(q) + 1
        BY <1>2, <2>3
      <4>2. CASE i = Len(q) + 1
        BY <2>3, <4>2
      <4>3. CASE i \in 1..Len(q)
        <5>1. f[i] = q[i] /\ q[i] # "stop"
          BY <2>3, <2>7, <4>3
        <5>2. i # Len(q) + 1
          BY <1>2, <4>3
        <5> QED BY <2>3, <5>1, <5>2
      <4> QED BY <4>1, <4>2, <4>3
    <3> QED BY <3>1, <3>2
  <2>9. QueueInv(r)
    BY <2>4, <2>6, <2>7, <2>8 DEF QueueInv
  <2> QED BY <1>1, <2>1, <2>2, <2>5, <2>6, <2>9, StreamIo
<1>5. ASSUME Stream!Drain(t), Head(q) = "stop" PROVE StreamInv'
  <2> DEFINE r == [io EXCEPT !.custom = Tail(q), !.drain = "done"]
  <2>1. q # <<>> /\ io.drain = "run" /\ s7' = [s7 EXCEPT ![t].custom = Tail(q), ![t].drain = "done"]
    <3>1. q # <<>> /\ io.drain = "run"
      BY <1>5 DEF Stream!Drain
    <3>2. s7' = [s7 EXCEPT ![t].custom = Tail(q), ![t].drain = "done", ![t].known = @, ![t].unified = @]
      BY <1>5 DEF Stream!Drain, Stream!Stop
    <3>3. [io EXCEPT !.custom = Tail(q), !.drain = "done", !.known = @, !.unified = @]
            = [io EXCEPT !.custom = Tail(q), !.drain = "done"]
      BY <1>1 DEF IoRows
    <3> QED BY <1>1, <3>1, <3>2, <3>3 DEF StreamTypes
  <2>2. s7' = [s7 EXCEPT ![t] = r]
    BY <1>1, <2>1
  <2>3. Tail(q) \in Seq(Kinds) /\ Len(q) # 0 /\ Head(q) = q[1]
    BY <1>2, <2>1
  <2>4. r \in IoRows
    BY <1>1, <2>3 DEF IoRows
  <2>5. /\ r.sent = io.sent /\ r.unified = io.unified /\ r.known = io.known /\ r.events = io.events
        /\ r.unknown = io.unknown /\ r.task = io.task /\ r.drain = "done" /\ r.code = io.code
    BY <1>1 DEF IoRows
  <2> HIDE DEF r
  <2>6. q[1] = "stop" /\ 1 \in 1..Len(q) /\ io.task \in {"run", "closing", "draining", "done"}
    BY <1>1, <1>2, <1>5, <2>3 DEF IoRows
  <2>7. io.task = "draining"
    BY <1>1, <2>1, <2>6 DEF QueueInv
  <2>8. 1 = io.events - io.known + 1
    BY <1>1, <2>1, <2>6, <2>7 DEF QueueInv
  <2>9. io.known = io.events
    <3> DEFINE a == io.events
               b == io.known
    <3>1. a \in Nat /\ b \in Nat /\ 1 = a - b + 1
      BY <1>2, <2>8
    <3> HIDE DEF a, b
    <3>2. a = b
      BY <3>1
    <3> QED BY <3>2 DEF a, b
  <2>10. QueueInv(r)
    BY <1>1, <2>5, <2>7, <2>9 DEF QueueInv
  <2> QED BY <1>1, <2>2, <2>4, <2>5, <2>7, <2>10, StreamIo
<1>6. ASSUME Stream!Drain(t), Head(q) # "stop" PROVE StreamInv'
  <2> DEFINE n == io.known + 1
             f == Append(io.unified, "event")
             r == [io EXCEPT !.custom = Tail(q), !.known = n, !.unified = f]
  <2>1. q # <<>> /\ io.drain = "run" /\ s7' = [s7 EXCEPT ![t] = r] /\ s1[t].pc \in {"stream", "stopping"}
    <3>1. q # <<>> /\ io.drain = "run" /\ s1[t].pc \in {"stream", "stopping"}
      BY <1>6 DEF Stream!Drain
    <3>2. s7' = [s7 EXCEPT ![t].custom = Tail(q), ![t].drain = @, ![t].known = @ + 1,
                           ![t].unified = Append(@, "event")]
      BY <1>6 DEF Stream!Drain, Stream!Stop, Stream!Put
    <3>3. [io EXCEPT !.custom = Tail(q), !.drain = @, !.known = @ + 1, !.unified = Append(@, "event")] = r
      BY <1>1 DEF IoRows
    <3> HIDE DEF r
    <3> QED BY <1>1, <3>1, <3>2, <3>3 DEF StreamTypes
  <2>3. Tail(q) \in Seq(Kinds) /\ Len(q) # 0 /\ Head(q) = q[1] /\ Len(Tail(q)) = Len(q) - 1
        /\ \A i \in 1..Len(Tail(q)) : Tail(q)[i] = q[i + 1]
    BY <1>2, <2>1
  <2>4. n \in Nat /\ f \in Seq(Frames)
    BY <1>2, <1>3
  <2> HIDE DEF n, f
  <2>5. r \in IoRows
    BY <1>1, <2>3, <2>4 DEF IoRows
  <2>6. /\ r.sent = io.sent /\ r.unified = f /\ r.known = n /\ r.events = io.events
        /\ r.unknown = io.unknown /\ r.task = io.task /\ r.drain = io.drain /\ r.code = io.code
        /\ r.custom = Tail(q)
    BY <1>1 DEF IoRows
  <2> HIDE DEF r
  <2>7. io.task \in {"run", "closing", "draining"}
    BY <1>1, <2>1 DEF QueueInv, IoRows
  <2>8. n = io.known + 1 /\ Len(Tail(q)) = Len(q) - 1
    BY <2>3 DEF n
  <2>9. io.task \in {"run", "closing"} =>
          /\ Len(Tail(q)) = io.events - n /\ \A i \in 1..Len(Tail(q)) : Tail(q)[i] # "stop"
    <3> SUFFICES ASSUME io.task \in {"run", "closing"}
                 PROVE  Len(Tail(q)) = io.events - n /\ \A i \in 1..Len(Tail(q)) : Tail(q)[i] # "stop"
      OBVIOUS
    <3>1. Len(q) = io.events - io.known /\ \A i \in 1..Len(q) : q[i] # "stop"
      BY <1>1 DEF QueueInv
    <3>2. \A i \in 1..Len(Tail(q)) : i + 1 \in 1..Len(q)
      BY <1>2, <2>8
    <3> QED BY <1>2, <2>3, <2>8, <3>1, <3>2
  <2>10. io.task = "draining" =>
          /\ Len(Tail(q)) = io.events - n + 1
          /\ \A i \in 1..Len(Tail(q)) : Tail(q)[i] = "stop" <=> i = Len(Tail(q))
    <3> SUFFICES ASSUME io.task = "draining"
                 PROVE  /\ Len(Tail(q)) = io.events - n + 1
                        /\ \A i \in 1..Len(Tail(q)) : Tail(q)[i] = "stop" <=> i = Len(Tail(q))
      OBVIOUS
    <3>1. /\ Len(q) = io.events - io.known + 1
          /\ \A i \in 1..Len(q) : q[i] = "stop" <=> i = Len(q)
      BY <1>1, <2>1 DEF QueueInv
    <3>2. Len(Tail(q)) = io.events - n + 1
      BY <1>2, <2>8, <3>1
    <3>3. ASSUME NEW i \in 1..Len(Tail(q)) PROVE Tail(q)[i] = "stop" <=> i = Len(Tail(q))
      <4>1. i + 1 \in 1..Len(q) /\ Tail(q)[i] = q[i + 1]
        BY <1>2, <2>3, <2>8
      <4>2. q[i + 1] = "stop" <=> i + 1 = Len(q)
        BY <3>1, <4>1
      <4> QED BY <1>2, <2>8, <4>1, <4>2
    <3> QED BY <3>2, <3>3
  <2>11. QueueInv(r)
    BY <1>1, <2>1, <2>6, <2>7, <2>9, <2>10 DEF QueueInv
  <2>12. r.unified = Append(io.unified, "event") /\ r.known = io.known + (IF "event" = "event" THEN 1 ELSE 0)
    BY <2>6 DEF f, n
  <2> QED BY <1>1, <1>3, <2>1, <2>5, <2>6, <2>7, <2>11, <2>12, StreamIo
<1>7. ASSUME Stream!Drained(t) PROVE StreamInv'
  <2> DEFINE f == Append(io.unified, "stop")
             r == [io EXCEPT !.task = "done", !.unified = f]
  <2>1. io.task = "draining" /\ io.drain = "done"
    BY <1>7 DEF Stream!Drained
  <2>2. s7' = [s7 EXCEPT ![t] = r]
    BY <1>1, <1>7 DEF Stream!Drained, Stream!Put, Stream!Stop
  <2>3. f \in Seq(Frames)
    BY <1>2, <1>3
  <2> HIDE DEF f
  <2>4. r \in IoRows
    BY <1>1, <2>3 DEF IoRows
  <2>5. /\ r.sent = io.sent /\ r.unified = f /\ r.known = io.known /\ r.events = io.events
        /\ r.unknown = io.unknown /\ r.task = "done" /\ r.drain = io.drain /\ r.code = io.code
        /\ r.custom = io.custom
    BY <1>1 DEF IoRows
  <2> HIDE DEF r
  <2>6. io.known = io.events /\ (io.unknown => io.code = "unknown")
    BY <1>1, <2>1 DEF QueueInv
  <2>7. QueueInv(r)
    BY <2>1, <2>5 DEF QueueInv
  <2>8. r.unified = Append(io.unified, "stop") /\ r.known = io.known + (IF "stop" = "event" THEN 1 ELSE 0)
    BY <1>2, <2>5 DEF f
  <2> QED BY <1>1, <1>3, <2>1, <2>2, <2>4, <2>5, <2>6, <2>7, <2>8, StreamIo
<1> QED BY <1>4, <1>5, <1>6, <1>7

\* The guard is lost, or the client leaves: the producer is cancelled.
LEMMA CancelStep ==
    ASSUME StreamInv, NEW t \in Question, Stream!GuardLost(t) \/ Stream!Disconnect(t)
    PROVE  StreamInv'
<1> DEFINE io == s7[t]
<1>1. /\ StreamTypes /\ io \in IoRows /\ QueueInv(io) /\ FramesInv(io) /\ WholeInv(t) /\ CountInv(t)
      /\ DoneInv(t) /\ s1[t].pc = "stream"
  BY DEF StreamInv, StreamTypes, Stream!GuardLost, Stream!Disconnect
<1>2. io.unified \in Seq(Frames) /\ io.sent \in Seq(SentFrames) /\ io.known \in Nat
  BY <1>1 DEF IoRows
<1>3. "stop" \in Frames /\ "error" \in Frames
  BY DEF Frames
<1>4. PICK r, f, c :
        /\ s7' = [s7 EXCEPT ![t] = r]
        /\ r = Stream!Cancelled([io EXCEPT !.beat = FALSE, !.code = c, !.unified = f])
        /\ \/ f = io.unified /\ c = io.code /\ s1' = [s1 EXCEPT ![t].pc = "stopping"]
           \/ f = Append(io.unified, "error") /\ c = "guard_lost" /\ s1' = s1
  <2>1. CASE Stream!GuardLost(t)
    BY <1>1, <2>1 DEF Stream!GuardLost, Stream!Put
  <2>2. CASE Stream!Disconnect(t)
    <3>1. s7' = [s7 EXCEPT ![t] = Stream!Cancelled([io EXCEPT !.beat = FALSE])]
      BY <1>1, <2>2 DEF Stream!Disconnect, StreamTypes
    <3>2. [io EXCEPT !.beat = FALSE] = [io EXCEPT !.beat = FALSE, !.code = io.code, !.unified = io.unified]
      BY <1>1 DEF IoRows
    <3> QED BY <2>2, <3>1, <3>2 DEF Stream!Disconnect, Stream!To
  <2> QED BY <2>1, <2>2
<1>5. /\ f \in Seq(Frames) /\ c \in {"none", "error", "unknown", "guard_lost"}
      /\ Cardinality(EventsOf(io.sent \o f)) = io.known
      /\ f = io.unified \/ f = Append(io.unified, "error")
  <2>1. Cardinality(EventsOf(io.sent \o io.unified)) = io.known
    BY <1>1 DEF CountInv
  <2>2. /\ Append(io.unified, "error") \in Seq(Frames)
        /\ Cardinality(EventsOf(io.sent \o Append(io.unified, "error"))) = io.known
    BY <1>2, <1>3, <2>1, PutBehind
  <2>3. io.code \in {"none", "error", "unknown", "guard_lost"}
    BY <1>1 DEF IoRows
  <2> QED BY <1>2, <1>4, <2>1, <2>2, <2>3
<1>6. /\ \A i \in 1..Len(f) : f[i] = "stop" =>
           io.task = "done" /\ \A j \in 1..Len(f) : i < j => f[j] = "error"
  <2>1. CASE f = io.unified
    BY <1>1, <2>1 DEF FramesInv
  <2>2. CASE f = Append(io.unified, "error")
    <3> DEFINE q == io.unified
    <3>1. q \in Seq(Frames) /\ \A i \in 1..Len(q) : q[i] = "stop" =>
            io.task = "done" /\ \A j \in 1..Len(q) : i < j => q[j] = "error"
      BY <1>1, <1>2 DEF FramesInv
    <3>2. f = Append(q, "error")
      BY <2>2
    <3> HIDE DEF q
    <3>3. /\ Len(f) = Len(q) + 1 /\ Len(q) \in Nat /\ f[Len(q) + 1] = "error"
          /\ \A i \in 1..Len(q) : f[i] = q[i]
      BY <1>3, <3>1, <3>2
    <3> HIDE DEF io
    <3> QED BY <3>1, <3>3
  <2> QED BY <1>5, <2>1, <2>2
<1>7. s7'[t] = r /\ (\A u \in Question \ {t} : s1'[u] = s1[u] /\ s6'[u] = s6[u] /\ s7'[u] = s7[u])
      /\ s6' = s6 /\ s2' = s2
  BY <1>1, <1>4 DEF StreamTypes, Stream!GuardLost, Stream!Disconnect, Stream!redis
<1>8. /\ s1' \in [Question -> TurnRows]
      /\ \/ s1'[t].pc = "stream" /\ c = "guard_lost"
         \/ s1'[t].pc = "stopping" /\ c = io.code
  <2>1. s1 \in [Question -> TurnRows] /\ s1[t] \in TurnRows
    BY <1>1 DEF StreamTypes
  <2>2. [s1[t] EXCEPT !.pc = "stopping"] \in TurnRows /\ [s1[t] EXCEPT !.pc = "stopping"].pc = "stopping"
    BY <2>1 DEF TurnRows
  <2>3. CASE c = io.code /\ s1' = [s1 EXCEPT ![t].pc = "stopping"]
    BY <2>1, <2>2, <2>3
  <2>4. CASE c = "guard_lost" /\ s1' = s1
    BY <1>1, <2>1, <2>4
  <2> QED BY <1>4, <2>3, <2>4
<1>9. PICK k, d, w : /\ r = [io EXCEPT !.beat = FALSE, !.code = c, !.task = k, !.drain = d, !.unified = w]
                  /\ \/ w = f /\ d = io.drain /\ k = io.task /\ io.task \in {"closing", "done"}
                     \/ w = f /\ d = io.drain /\ k = "closing" /\ io.task = "run"
                     \/ w = Append(f, "stop") /\ d = "done" /\ k = "done" /\ io.task = "draining"
  <2> DEFINE s == [io EXCEPT !.beat = FALSE, !.code = c, !.unified = f]
  <2>1. /\ s.task = io.task /\ s.drain = io.drain /\ s.unified = f /\ s.beat = FALSE /\ s.code = c
        /\ s \in [task : {"run", "closing", "draining", "done"}, drain : {"run", "done"}, beat : BOOLEAN,
                  custom : Seq(Kinds), unified : Seq(Frames), sent : Seq(SentFrames),
                  events : Nat, known : Nat, text : Nat,
                  quiet : BOOLEAN, unknown : BOOLEAN, handoff : BOOLEAN,
                  code : {"none", "error", "unknown", "guard_lost"}]
    BY <1>1, <1>5 DEF IoRows
  <2>2. CASE io.task = "run"
    <3>1. r = [io EXCEPT !.beat = FALSE, !.code = c, !.task = "closing", !.drain = io.drain, !.unified = f]
      BY <1>1, <1>4, <2>1, <2>2 DEF Stream!Cancelled, IoRows
    <3> QED BY <2>2, <3>1
  <2>3. CASE io.task = "draining"
    <3>1. r = [io EXCEPT !.beat = FALSE, !.code = c, !.task = "done", !.drain = "done", !.unified = Append(f, "stop")]
      BY <1>1, <1>4, <2>1, <2>3 DEF Stream!Cancelled, Stream!Put, Stream!Stop, IoRows
    <3> QED BY <2>3, <3>1
  <2>4. CASE io.task \in {"closing", "done"}
    <3>1. r = [io EXCEPT !.beat = FALSE, !.code = c, !.task = io.task, !.drain = io.drain, !.unified = f]
      BY <1>1, <1>4, <2>1, <2>4 DEF Stream!Cancelled, IoRows
    <3> QED BY <2>4, <3>1
  <2> QED BY <1>1, <2>2, <2>3, <2>4 DEF IoRows
<1>10. /\ Append(f, "stop") \in Seq(Frames)
       /\ Cardinality(EventsOf(io.sent \o Append(f, "stop"))) = io.known
  BY <1>2, <1>3, <1>5, PutBehind
<1>11. /\ r \in IoRows /\ r.sent = io.sent /\ r.known = io.known /\ r.events = io.events
       /\ r.unknown = io.unknown /\ r.custom = io.custom /\ r.code = c
       /\ r.task = k /\ r.drain = d /\ r.unified = w
  BY <1>1, <1>5, <1>9, <1>10 DEF IoRows
<1>12. StreamTypes'
  BY <1>1, <1>4, <1>7, <1>8, <1>11 DEF StreamTypes
<1>13. QueueInv(r)
  BY <1>1, <1>9, <1>11 DEF QueueInv
<1>14. FramesInv(r)
  <2>1. CASE w = f
    BY <1>6, <1>9, <1>11, <2>1 DEF FramesInv
  <2>2. CASE w = Append(f, "stop") /\ io.task = "draining" /\ k = "done"
    <3>1. \A i \in 1..Len(f) : f[i] # "stop"
      BY <1>6, <2>2
    <3>2. /\ Len(Append(f, "stop")) = Len(f) + 1 /\ Len(f) \in Nat /\ Append(f, "stop")[Len(f) + 1] = "stop"
          /\ \A i \in 1..Len(f) : Append(f, "stop")[i] = f[i]
      BY <1>3, <1>5
    <3> QED BY <1>11, <2>2, <3>1, <3>2 DEF FramesInv
  <2> QED BY <1>9, <2>1, <2>2
<1>15. WholeInv(t)'
  BY <1>1, <1>7, <1>8, <1>9, <1>11 DEF WholeInv
<1>16. Cardinality(EventsOf(r.sent \o r.unified)) = r.known
  BY <1>5, <1>9, <1>10, <1>11
<1>17. CountInv(t)'
  BY <1>7, <1>8, <1>16 DEF CountInv
<1>18. DoneInv(t)'
  <2>1. \A i \in 1..Len(io.sent) : io.sent[i] # "done"
    BY <1>1 DEF DoneInv
  <2> QED BY <1>7, <1>11, <2>1 DEF DoneInv
<1>19. QueueInv(s7[t])' /\ FramesInv(s7[t])'
  BY <1>7, <1>13, <1>14
<1> QED BY <1>7, <1>12, <1>15, <1>17, <1>18, <1>19, StreamMoves

\* The loop hands a frame to the client, or ends.
LEMMA SendStep == ASSUME StreamInv, NEW t \in Question, Stream!Send(t) PROVE StreamInv'
<1> DEFINE io == s7[t]
           q == io.unified
<1>1. /\ StreamTypes /\ io \in IoRows /\ QueueInv(io) /\ FramesInv(io) /\ WholeInv(t) /\ CountInv(t)
      /\ DoneInv(t) /\ s1[t].pc = "stream" /\ q # <<>> /\ s1[t] \in TurnRows
      /\ UNCHANGED <<s2, s6>>
  BY DEF StreamInv, StreamTypes, Stream!Send, Stream!redis
<1>2. /\ q \in Seq(Frames) /\ io.sent \in Seq(SentFrames) /\ io.known \in Nat
  BY <1>1 DEF IoRows
<1>3. /\ Tail(q) \in Seq(Frames) /\ Len(q) \in Nat /\ Len(q) # 0 /\ Len(Tail(q)) = Len(q) - 1
      /\ Head(q) = q[1] /\ Head(q) \in Frames /\ \A i \in 1..Len(Tail(q)) : Tail(q)[i] = q[i + 1]
  <2> HIDE DEF q
  <2> QED BY <1>1, <1>2
<1>4. \A i \in 1..Len(Tail(q)) : i \in Nat /\ i + 1 \in 1..Len(q)
  <2> HIDE DEF q
  <2> QED BY <1>3
<1>5. Cardinality(EventsOf(io.sent \o q)) = io.known
  BY <1>1 DEF CountInv
<1>6. \A i \in 1..Len(io.sent) : io.sent[i] # "done"
  BY <1>1 DEF DoneInv
<1>7. \A i \in 1..Len(Tail(q)) : Tail(q)[i] = "stop" =>
        io.task = "done" /\ \A j \in 1..Len(Tail(q)) : i < j => Tail(q)[j] = "error"
  <2> SUFFICES ASSUME NEW i \in 1..Len(Tail(q)), Tail(q)[i] = "stop"
               PROVE  io.task = "done" /\ \A j \in 1..Len(Tail(q)) : i < j => Tail(q)[j] = "error"
    OBVIOUS
  <2>1. i + 1 \in 1..Len(q) /\ q[i + 1] = "stop"
    BY <1>3, <1>4
  <2>2. io.task = "done" /\ \A j \in 1..Len(q) : i + 1 < j => q[j] = "error"
    BY <1>1, <2>1 DEF FramesInv
  <2>3. ASSUME NEW j \in 1..Len(Tail(q)), i < j PROVE Tail(q)[j] = "error"
    <3>1. j + 1 \in 1..Len(q) /\ i + 1 < j + 1 /\ Tail(q)[j] = q[j + 1]
      BY <1>3, <1>4, <2>3
    <3> QED BY <2>2, <3>1
  <2> QED BY <2>2, <2>3
<1>8. ASSUME Head(q) = "stop" PROVE StreamInv'
  <2> DEFINE r == [io EXCEPT !.unified = Tail(q), !.beat = FALSE]
  <2>1. s7' = [s7 EXCEPT ![t] = r] /\ s1' = [s1 EXCEPT ![t].pc = "save"]
    BY <1>1, <1>8 DEF Stream!Send, Stream!Stop, Stream!To, StreamTypes
  <2>2. /\ r \in IoRows /\ r.sent = io.sent /\ r.known = io.known /\ r.events = io.events
        /\ r.unknown = io.unknown /\ r.custom = io.custom /\ r.code = io.code
        /\ r.task = io.task /\ r.drain = io.drain /\ r.unified = Tail(q)
    BY <1>1, <1>3 DEF IoRows
  <2> HIDE DEF r
  <2>3. io.task = "done" /\ \A i \in 1..Len(q) : q[i] # "event"
    <3>1. 1 \in 1..Len(q) /\ q[1] = "stop"
      BY <1>3, <1>8
    <3>2. io.task = "done" /\ \A i \in 1..Len(q) : 1 < i => q[i] = "error"
      BY <1>1, <3>1 DEF FramesInv
    <3>3. \A i \in 1..Len(q) : i = 1 \/ 1 < i
      BY <1>3
    <3> QED BY <3>1, <3>2, <3>3
  <2>4. EventsOf(io.sent \o q) = EventsOf(io.sent)
    <3> DEFINE a == io.sent
               E == Frames \cup SentFrames
    <3>1. a \in Seq(E) /\ q \in Seq(E) /\ \A i \in 1..Len(q) : q[i] # "event"
      BY <1>2, <2>3
    <3> HIDE DEF a, E, q
    <3>2. /\ Len(a) \in Nat /\ Len(q) \in Nat /\ Len(a \o q) = Len(a) + Len(q)
          /\ \A i \in 1..Len(a) : (a \o q)[i] = a[i]
          /\ \A i \in 1..(Len(a) + Len(q)) : i > Len(a) => (a \o q)[i] = q[i - Len(a)] /\ i - Len(a) \in 1..Len(q)
      BY <3>1
    <3>3. \A i \in 1..(Len(a) + Len(q)) : i \in 1..Len(a) \/ i > Len(a)
      BY <3>2
    <3>4. \A i \in 1..Len(a) : i \in 1..(Len(a) + Len(q))
      BY <3>2
    <3>5. \A i \in 1..(Len(a) + Len(q)) : (a \o q)[i] = "event" <=> i \in 1..Len(a) /\ a[i] = "event"
      BY <3>1, <3>2, <3>3
    <3>6. EventsOf(a \o q) = EventsOf(a)
      BY <3>2, <3>4, <3>5 DEF EventsOf
    <3> QED BY <3>6 DEF a
  <2>5. s7'[t] = r /\ s1'[t].pc = "save" /\ s6'[t] = s6[t]
        /\ \A u \in Question \ {t} : s1'[u] = s1[u] /\ s6'[u] = s6[u] /\ s7'[u] = s7[u]
    BY <1>1, <2>1 DEF StreamTypes, TurnRows
  <2>6. StreamTypes'
    <3>1. [s1[t] EXCEPT !.pc = "save"] \in TurnRows
      BY <1>1 DEF TurnRows
    <3> QED BY <1>1, <2>1, <2>2, <3>1 DEF StreamTypes
  <2>7. QueueInv(r)
    BY <1>1, <2>2 DEF QueueInv
  <2>8. FramesInv(r)
    BY <1>7, <2>2 DEF FramesInv
  <2>9. WholeInv(t)'
    BY <1>1, <2>2, <2>5 DEF WholeInv
  <2>10. CountInv(t)'
    BY <1>5, <2>2, <2>3, <2>4, <2>5 DEF CountInv
  <2>11. DoneInv(t)'
    BY <1>6, <2>2, <2>5 DEF DoneInv
  <2>12. QueueInv(s7[t])' /\ FramesInv(s7[t])'
    BY <2>5, <2>7, <2>8
  <2> QED BY <2>5, <2>6, <2>9, <2>10, <2>11, <2>12, StreamMoves
<1>9. ASSUME Head(q) # "stop" PROVE StreamInv'
  <2> DEFINE f == Append(io.sent, Head(q))
             r == [io EXCEPT !.unified = Tail(q), !.sent = f]
  <2>1. s7' = [s7 EXCEPT ![t] = r] /\ s1' = s1
    BY <1>1, <1>9 DEF Stream!Send, Stream!Stop, StreamTypes
  <2>2. Head(q) \in SentFrames /\ Head(q) # "done"
    BY <1>3, <1>9 DEF Frames, SentFrames
  <2>3. f \in Seq(SentFrames) /\ \A i \in 1..Len(f) : f[i] # "done"
    <3> DEFINE a == io.sent
               x == Head(q)
    <3>1. a \in Seq(SentFrames) /\ x \in SentFrames /\ x # "done" /\ \A i \in 1..Len(a) : a[i] # "done"
      BY <1>2, <1>6, <2>2
    <3> HIDE DEF a, x
    <3>2. /\ Append(a, x) \in Seq(SentFrames) /\ Len(Append(a, x)) = Len(a) + 1 /\ Len(a) \in Nat
          /\ Append(a, x)[Len(a) + 1] = x /\ \A i \in 1..Len(a) : Append(a, x)[i] = a[i]
      BY <3>1
    <3>3. \A i \in 1..(Len(a) + 1) : i \in 1..Len(a) \/ i = Len(a) + 1
      BY <3>2
    <3>4. Append(a, x) \in Seq(SentFrames) /\ \A i \in 1..Len(Append(a, x)) : Append(a, x)[i] # "done"
      BY <3>1, <3>2, <3>3
    <3> QED BY <3>4 DEF a, x
  <2>4. f \o Tail(q) = io.sent \o q
    <3> DEFINE a == io.sent
               E == Frames \cup SentFrames
    <3>1. a \in Seq(E) /\ q \in Seq(E) /\ q # <<>>
      BY <1>1, <1>2
    <3> HIDE DEF a, E, q
    <3>2. Append(a, Head(q)) \o Tail(q) = a \o q
      BY <3>1, SendMoves
    <3> QED BY <3>2 DEF a
  <2> HIDE DEF f
  <2>5. /\ r \in IoRows /\ r.sent = f /\ r.known = io.known /\ r.events = io.events
        /\ r.unknown = io.unknown /\ r.custom = io.custom /\ r.code = io.code
        /\ r.task = io.task /\ r.drain = io.drain /\ r.unified = Tail(q)
    BY <1>1, <1>3, <2>3 DEF IoRows
  <2> HIDE DEF r
  <2>6. s7'[t] = r /\ s1'[t].pc = "stream"
        /\ \A u \in Question \ {t} : s1'[u] = s1[u] /\ s6'[u] = s6[u] /\ s7'[u] = s7[u]
    BY <1>1, <2>1 DEF StreamTypes
  <2>7. StreamTypes'
    BY <1>1, <2>1, <2>5 DEF StreamTypes
  <2>8. QueueInv(r)
    BY <1>1, <2>5 DEF QueueInv
  <2>9. FramesInv(r)
    BY <1>7, <2>5 DEF FramesInv
  <2>10. WholeInv(t)'
    BY <1>1, <2>5, <2>6 DEF WholeInv
  <2>11. CountInv(t)'
    BY <1>5, <2>4, <2>5, <2>6 DEF CountInv
  <2>12. DoneInv(t)'
    BY <2>3, <2>5, <2>6 DEF DoneInv
  <2>13. QueueInv(s7[t])' /\ FramesInv(s7[t])'
    BY <2>6, <2>8, <2>9
  <2> QED BY <2>6, <2>7, <2>10, <2>11, <2>12, <2>13, StreamMoves
<1> QED BY <1>8, <1>9

\* The turn is saved, and the client told.
LEMMA SaveStep == ASSUME StreamInv, NEW t \in Question, Stream!Save(t) PROVE StreamInv'
<1> DEFINE io == s7[t]
           q == io.sent
<1>1. /\ StreamTypes /\ io \in IoRows /\ QueueInv(io) /\ FramesInv(io) /\ WholeInv(t) /\ CountInv(t)
      /\ DoneInv(t) /\ s1[t].pc = "save" /\ s1[t] \in TurnRows /\ s2' = s2
      /\ s1' = [s1 EXCEPT ![t].pc = "release"]
  BY DEF StreamInv, StreamTypes, Stream!Save, Stream!redis, Stream!To
<1>2. PICK ok \in BOOLEAN :
        /\ s6' = IF ok THEN [s6 EXCEPT ![t].answer = io.code, ![t].tools = io.known] ELSE s6
        /\ s7' = [s7 EXCEPT ![t].sent = Append(@, IF ok THEN "done" ELSE "failed")]
  BY DEF Stream!Save
<1> DEFINE x == IF ok THEN "done" ELSE "failed"
           r == [io EXCEPT !.sent = Append(q, x)]
           v == [s6[t] EXCEPT !.answer = io.code, !.tools = io.known]
<1>3. q \in Seq(SentFrames) /\ x \in SentFrames /\ x # "event" /\ (x = "done" => ok)
  BY <1>1 DEF IoRows, SentFrames
<1>4. io.task = "done" /\ Cardinality(EventsOf(q)) = io.known
  BY <1>1 DEF CountInv
<1>5. \A i \in 1..Len(q) : q[i] # "done"
  BY <1>1 DEF DoneInv
<1>6. s7' = [s7 EXCEPT ![t] = r]
  BY <1>1, <1>2
<1> HIDE DEF x
<1>7. /\ Append(q, x) \in Seq(SentFrames) /\ Len(Append(q, x)) = Len(q) + 1 /\ Len(q) \in Nat
      /\ Append(q, x)[Len(q) + 1] = x /\ \A i \in 1..Len(q) : Append(q, x)[i] = q[i]
      /\ Cardinality(EventsOf(Append(q, x))) = io.known
  <2>1. Cardinality(EventsOf(Append(q, x))) = Cardinality(EventsOf(q)) + (IF x = "event" THEN 1 ELSE 0)
        /\ Cardinality(EventsOf(q)) \in Nat
    <3> HIDE DEF q
    <3> QED BY <1>3, EventsGrow
  <2>2. /\ Append(q, x) \in Seq(SentFrames) /\ Len(Append(q, x)) = Len(q) + 1 /\ Len(q) \in Nat
        /\ Append(q, x)[Len(q) + 1] = x /\ \A i \in 1..Len(q) : Append(q, x)[i] = q[i]
    <3> HIDE DEF q
    <3> QED BY <1>3
  <2> QED BY <1>3, <1>4, <2>1, <2>2
<1> DEFINE f == Append(q, x)
<1> HIDE DEF f
<1>8. /\ r \in IoRows /\ r.sent = f /\ r.known = io.known /\ r.events = io.events
      /\ r.unknown = io.unknown /\ r.custom = io.custom /\ r.code = io.code
      /\ r.task = io.task /\ r.drain = io.drain /\ r.unified = io.unified
  BY <1>1, <1>7 DEF IoRows, f
<1> HIDE DEF r
<1> DEFINE SaveRows == [question : BOOLEAN, tools : Nat,
                        answer : {"none", "error", "unknown", "guard_lost", "stopped"}]
<1>9. s6[t] \in SaveRows /\ s6 \in [Question -> SaveRows]
  BY <1>1 DEF StreamTypes
<1>10. v \in SaveRows /\ v.answer = io.code /\ v.tools = io.known
  BY <1>1, <1>9 DEF IoRows
<1>11. s6' = IF ok THEN [s6 EXCEPT ![t] = v] ELSE s6
  BY <1>2, <1>9
<1> HIDE DEF v
<1>12. /\ s7'[t] = r /\ s1'[t].pc = "release" /\ (ok => s6'[t] = v)
       /\ \A u \in Question \ {t} : s1'[u] = s1[u] /\ s6'[u] = s6[u] /\ s7'[u] = s7[u]
  BY <1>1, <1>6, <1>9, <1>11 DEF StreamTypes, TurnRows
<1>13. StreamTypes'
  <2>1. [s1[t] EXCEPT !.pc = "release"] \in TurnRows
    BY <1>1 DEF TurnRows
  <2>2. s1' \in [Question -> TurnRows] /\ s7' \in [Question -> IoRows]
    BY <1>1, <1>6, <1>8, <2>1 DEF StreamTypes
  <2>3. s6' \in [Question -> SaveRows]
    BY <1>9, <1>10, <1>11
  <2> QED BY <1>1, <2>2, <2>3 DEF StreamTypes
<1>14. QueueInv(r) /\ FramesInv(r)
  BY <1>1, <1>8 DEF QueueInv, FramesInv
<1>15. QueueInv(s7[t])' /\ FramesInv(s7[t])'
  BY <1>12, <1>14
<1>16. WholeInv(t)' /\ CountInv(t)'
  BY <1>12 DEF WholeInv, CountInv
<1>17. ASSUME NEW i \in 1..Len(f), f[i] = "done"
       PROVE  /\ f[Len(f)] = "done"
              /\ s6'[t].tools = Cardinality(EventsOf(f))
              /\ \/ s6'[t].tools = r.events /\ (r.unknown => s6'[t].answer = "unknown")
                 \/ s6'[t].answer = "guard_lost"
  <2>1. i \in 1..Len(q) \/ i = Len(q) + 1
    BY <1>7 DEF f
  <2>2. i = Len(q) + 1 /\ x = "done" /\ ok
    BY <1>3, <1>5, <1>7, <1>17, <2>1 DEF f
  <2>3. f[Len(f)] = "done" /\ Cardinality(EventsOf(f)) = io.known
    BY <1>7, <2>2 DEF f
  <2>4. s6'[t].tools = io.known /\ s6'[t].answer = io.code
    BY <1>10, <1>12, <2>2
  <2>5. io.code = "guard_lost" \/ (io.known = io.events /\ (io.unknown => io.code = "unknown"))
    BY <1>1, <1>4 DEF WholeInv
  <2> QED BY <1>8, <2>3, <2>4, <2>5
<1>18. DoneInv(t)'
  BY <1>8, <1>12, <1>17 DEF DoneInv
<1> QED BY <1>12, <1>13, <1>15, <1>16, <1>18, StreamMoves

\* The steps of admission.
LEMMA AdmitStep ==
    ASSUME StreamInv, NEW t \in Question,
           \/ \E x \in Stream!Text : Stream!Submit(t, x)
           \/ Stream!Refuse(t) \/ Stream!BuildDeps(t) \/ Stream!Blocked(t) \/ Stream!Screened(t)
           \/ Stream!Detect(t) \/ Stream!Unrouted(t) \/ Stream!CheckQuota(t) \/ Stream!Count(t)
           \/ Stream!Routed(t) \/ Stream!Attach(t)
    PROVE  StreamInv'
<1> DEFINE Before == {"idle", "checked", "screen", "route", "count", "asking", "policy", "begin"}
           After == {"checked", "screen", "route", "count", "asking", "policy", "begin", "stream", "done"}
<1>1. StreamTypes /\ s1[t] \in TurnRows /\ s1 \in [Question -> TurnRows]
  BY DEF StreamInv, StreamTypes
<1>2. PICK row : /\ s1' = [s1 EXCEPT ![t] = row] /\ row \in TurnRows /\ row.pc \in After
                 /\ s1[t].pc \in Before
  <2>1. ASSUME NEW pc \in After, Stream!To(t, pc), s1[t].pc \in Before
        PROVE  \E row : /\ s1' = [s1 EXCEPT ![t] = row] /\ row \in TurnRows /\ row.pc \in After
                        /\ s1[t].pc \in Before
    <3> DEFINE row == [s1[t] EXCEPT !.pc = pc]
    <3>1. s1' = [s1 EXCEPT ![t] = row]
      BY <1>1, <2>1 DEF Stream!To
    <3>2. row \in TurnRows
      BY <1>1 DEF TurnRows
    <3>3. row.pc = pc
      BY <1>1 DEF TurnRows
    <3> HIDE DEF row
    <3> QED BY <2>1, <3>1, <3>2, <3>3
  <2>2. ASSUME NEW x \in Stream!Text, Stream!Submit(t, x)
        PROVE  \E row : /\ s1' = [s1 EXCEPT ![t] = row] /\ row \in TurnRows /\ row.pc \in After
                        /\ s1[t].pc \in Before
    <3> DEFINE row == [s1[t] EXCEPT !.text = x, !.pc = "checked"]
    <3>1. s1' = [s1 EXCEPT ![t] = row] /\ s1[t].pc \in Before
      BY <1>1, <2>2 DEF Stream!Submit
    <3>2. row \in TurnRows /\ row.pc = "checked"
      BY <1>1 DEF TurnRows
    <3> HIDE DEF row
    <3> QED BY <3>1, <3>2
  <2>3. ASSUME NEW a \in {"none", "agent", "default", "routed"}, NEW pc \in After,
               s1' = [s1 EXCEPT ![t].agent = a, ![t].pc = pc], s1[t].pc \in Before
        PROVE  \E row : /\ s1' = [s1 EXCEPT ![t] = row] /\ row \in TurnRows /\ row.pc \in After
                        /\ s1[t].pc \in Before
    <3> DEFINE row == [s1[t] EXCEPT !.agent = a, !.pc = pc]
    <3>1. s1' = [s1 EXCEPT ![t] = row]
      BY <1>1, <2>3
    <3>2. row \in TurnRows /\ row.pc = pc
      BY <1>1 DEF TurnRows
    <3> HIDE DEF row
    <3> QED BY <2>3, <3>1, <3>2
  <2>4. CASE \E x \in Stream!Text : Stream!Submit(t, x)
    BY <2>2, <2>4
  <2>5. CASE Stream!Refuse(t) \/ Stream!Blocked(t) \/ Stream!Screened(t) \/ Stream!Count(t)
    BY <2>1, <2>5 DEF Stream!Refuse, Stream!Blocked, Stream!Screened, Stream!Answered, Stream!Count
  <2>6. CASE Stream!BuildDeps(t)
    BY <2>1, <2>3, <2>6 DEF Stream!BuildDeps, Stream!Answered
  <2>7. CASE Stream!Detect(t)
    <3> DEFINE h == Stream!Hit(t)
               row == [s1[t] EXCEPT !.hit = h, !.pc = "route"]
    <3>1. s1' = [s1 EXCEPT ![t] = row] /\ s1[t].pc \in Before
      BY <1>1, <2>7 DEF Stream!Detect
    <3>2. h \in BOOLEAN
      BY <1>1 DEF Stream!Hit, StreamTypes
    <3> HIDE DEF h
    <3>3. row \in TurnRows /\ row.pc = "route"
      BY <1>1, <3>2 DEF TurnRows
    <3> HIDE DEF row
    <3> QED BY <3>1, <3>3
  <2>8. CASE Stream!Unrouted(t)
    <3>1. /\ s1[t].pc = "route"
          /\ s1' = [s1 EXCEPT ![t].agent = IF @ = "none" THEN "default" ELSE @, ![t].pc = "policy"]
      BY <2>8 DEF Stream!Unrouted
    <3> DEFINE a == IF s1[t].agent = "none" THEN "default" ELSE s1[t].agent
    <3>2. a \in {"none", "agent", "default", "routed"}
      BY <1>1 DEF TurnRows
    <3>3. s1' = [s1 EXCEPT ![t].agent = a, ![t].pc = "policy"]
      BY <3>1
    <3> HIDE DEF a
    <3> QED BY <2>3, <3>1, <3>2, <3>3
  <2>9. CASE Stream!CheckQuota(t)
    BY <2>1, <2>9 DEF Stream!CheckQuota, Stream!Answered
  <2>10. CASE Stream!Routed(t)
    BY <2>1, <2>3, <2>10 DEF Stream!Routed, Stream!Answered
  <2>11. CASE Stream!Attach(t)
    BY <2>1, <2>11 DEF Stream!Attach, Stream!Answered
  <2> QED BY <2>4, <2>5, <2>6, <2>7, <2>8, <2>9, <2>10, <2>11
<1>3. s6' = s6 /\ s7' = s7 /\ s2' \in BOOLEAN
  BY <1>1 DEF Stream!Submit, Stream!Refuse, Stream!BuildDeps, Stream!Blocked, Stream!Screened,
       Stream!Detect, Stream!Unrouted, Stream!CheckQuota, Stream!Count, Stream!Routed, Stream!Attach,
       Stream!redis, StreamTypes
<1>4. s1'[t] = row /\ \A u \in Question \ {t} : s1'[u] = s1[u]
  BY <1>1, <1>2
<1>5. StreamTypes'
  BY <1>1, <1>2, <1>3 DEF StreamTypes
<1> QED BY <1>2, <1>3, <1>4, <1>5, StreamAdmits

\* The question is committed and the stream begins, or the conversation is busy.
LEMMA BeginStreamStep == ASSUME StreamInv, NEW t \in Question, Stream!Begin(t) PROVE StreamInv'
<1>1. /\ StreamTypes /\ s1[t] \in TurnRows /\ s1 \in [Question -> TurnRows] /\ s1[t].pc = "begin"
      /\ QueueInv(s7[t]) /\ FramesInv(s7[t]) /\ WholeInv(t) /\ CountInv(t) /\ DoneInv(t)
      /\ s2' = s2 /\ s7' = s7
  BY DEF StreamInv, StreamTypes, Stream!Begin, Stream!redis
<1>2. CASE s6' = [s6 EXCEPT ![t].question = TRUE]
             /\ s1' = [s1 EXCEPT ![t] = [Stream!NoTurn EXCEPT !.pc = "stream"]]
  <2> DEFINE row == [Stream!NoTurn EXCEPT !.pc = "stream"]
             v == [s6[t] EXCEPT !.question = TRUE]
             SaveRows == [question : BOOLEAN, tools : Nat,
                          answer : {"none", "error", "unknown", "guard_lost", "stopped"}]
  <2>1. row \in TurnRows /\ row.pc = "stream"
    BY DEF Stream!NoTurn, TurnRows, Stream!Text
  <2>2. s6 \in [Question -> SaveRows] /\ s6[t] \in SaveRows
    BY <1>1 DEF StreamTypes
  <2>3. v \in SaveRows /\ s6' = [s6 EXCEPT ![t] = v]
    BY <1>2, <2>2
  <2>4. s1' = [s1 EXCEPT ![t] = row]
    BY <1>2
  <2> HIDE DEF row, v
  <2>5. StreamTypes'
    BY <1>1, <2>1, <2>2, <2>3, <2>4 DEF StreamTypes
  <2>6. s1'[t].pc = "stream"
        /\ \A u \in Question \ {t} : s1'[u] = s1[u] /\ s6'[u] = s6[u] /\ s7'[u] = s7[u]
    BY <1>1, <2>1, <2>2, <2>3, <2>4
  <2>7. QueueInv(s7[t])' /\ FramesInv(s7[t])'
    BY <1>1
  <2>8. WholeInv(t)' /\ CountInv(t)'
    BY <1>1, <2>6 DEF WholeInv, CountInv
  <2>9. DoneInv(t)'
    <3>1. \A i \in 1..Len(s7[t].sent) : s7[t].sent[i] # "done"
      BY <1>1 DEF DoneInv
    <3> QED BY <1>1, <3>1 DEF DoneInv
  <2> QED BY <2>5, <2>6, <2>7, <2>8, <2>9, StreamMoves
<1>3. CASE s6' = s6 /\ s1' = [s1 EXCEPT ![t].pc = "done"]
  <2>1. [s1[t] EXCEPT !.pc = "done"] \in TurnRows /\ [s1[t] EXCEPT !.pc = "done"].pc = "done"
    BY <1>1 DEF TurnRows
  <2>2. StreamTypes'
    BY <1>1, <1>3, <2>1 DEF StreamTypes
  <2>3. s1'[t].pc = "done" /\ \A u \in Question \ {t} : s1'[u] = s1[u]
    BY <1>1, <1>3, <2>1
  <2> QED BY <1>1, <1>3, <2>2, <2>3, StreamAdmits
<1> QED BY <1>2, <1>3 DEF Stream!Begin, Stream!To

\* The end of a turn: saved as stopped, or its guard released.
LEMMA EndStreamStep ==
    ASSUME StreamInv, NEW t \in Question, Stream!SaveStopped(t) \/ Stream!ReleaseGuard(t)
    PROVE  StreamInv'
<1> DEFINE SaveRows == [question : BOOLEAN, tools : Nat,
                        answer : {"none", "error", "unknown", "guard_lost", "stopped"}]
<1>1. /\ StreamTypes /\ s1[t] \in TurnRows /\ s1 \in [Question -> TurnRows]
      /\ s6 \in [Question -> SaveRows] /\ s6[t] \in SaveRows
      /\ QueueInv(s7[t]) /\ FramesInv(s7[t]) /\ WholeInv(t) /\ CountInv(t) /\ DoneInv(t)
      /\ s2' = s2 /\ s7' = s7 /\ s1' = [s1 EXCEPT ![t].pc = "done"]
  BY DEF StreamInv, StreamTypes, Stream!SaveStopped, Stream!ReleaseGuard, Stream!redis, Stream!To
<1>2. [s1[t] EXCEPT !.pc = "done"] \in TurnRows /\ [s1[t] EXCEPT !.pc = "done"].pc = "done"
  BY <1>1 DEF TurnRows
<1>3. \/ s6' = s6 /\ s1[t].pc \in {"stopping", "release"}
      \/ s6' = [s6 EXCEPT ![t].answer = "stopped"] /\ s1[t].pc = "stopping"
  BY DEF Stream!SaveStopped, Stream!ReleaseGuard
<1>4. [s6[t] EXCEPT !.answer = "stopped"] \in SaveRows
  BY <1>1
<1>5. s6' \in [Question -> SaveRows] /\ \A u \in Question \ {t} : s6'[u] = s6[u]
  BY <1>1, <1>3, <1>4
<1>6. StreamTypes'
  BY <1>1, <1>2, <1>5 DEF StreamTypes
<1>7. s1'[t].pc = "done" /\ \A u \in Question \ {t} : s1'[u] = s1[u] /\ s6'[u] = s6[u] /\ s7'[u] = s7[u]
  BY <1>1, <1>2, <1>5
<1>8. QueueInv(s7[t])' /\ FramesInv(s7[t])'
  BY <1>1
<1>9. WholeInv(t)' /\ CountInv(t)'
  BY <1>7 DEF WholeInv, CountInv
<1>10. DoneInv(t)'
  <2>1. CASE s6' = s6 /\ s1[t].pc \in {"stopping", "release"}
    BY <1>1, <1>7, <2>1 DEF DoneInv
  <2>2. CASE s1[t].pc = "stopping"
    <3>1. \A i \in 1..Len(s7[t].sent) : s7[t].sent[i] # "done"
      BY <1>1, <2>2 DEF DoneInv
    <3> QED BY <1>1, <3>1 DEF DoneInv
  <2> QED BY <1>3, <2>1, <2>2
<1> QED BY <1>6, <1>7, <1>8, <1>9, <1>10, StreamMoves

\* Every step of the questions and their streams.
LEMMA StreamStep == ASSUME StreamInv, [Stream!Next]_Stream!vars PROVE StreamInv'
<1>1. ASSUME NEW t \in Question, \E x \in Stream!Text : Stream!Submit(t, x) PROVE StreamInv'
  BY <1>1, AdmitStep
<1>2. ASSUME NEW t \in Question,
             \/ Stream!Refuse(t) \/ Stream!BuildDeps(t) \/ Stream!Blocked(t) \/ Stream!Screened(t)
             \/ Stream!Detect(t) \/ Stream!Unrouted(t) \/ Stream!CheckQuota(t) \/ Stream!Count(t)
             \/ Stream!Routed(t) \/ Stream!Attach(t)
      PROVE  StreamInv'
  BY <1>2, AdmitStep
<1>3. ASSUME NEW t \in Question, Stream!Begin(t) PROVE StreamInv'
  BY <1>3, BeginStreamStep
<1>4. ASSUME NEW t \in Question,
             \/ Stream!SayText(t) \/ Stream!ErrorFrame(t) \/ Stream!HandOff(t) \/ Stream!Break(t)
             \/ Stream!Finish(t) \/ \E kind \in {"event", "unknown", "field_errors"} : Stream!Emit(t, kind)
      PROVE  StreamInv'
  BY <1>4, ProducerStep
<1>5. ASSUME NEW t \in Question, Stream!Close(t) \/ Stream!Drain(t) \/ Stream!Drained(t) PROVE StreamInv'
  BY <1>5, DrainStep
<1>6. ASSUME NEW t \in Question, Stream!GuardLost(t) \/ Stream!Disconnect(t) PROVE StreamInv'
  BY <1>6, CancelStep
<1>7. ASSUME NEW t \in Question, Stream!Send(t) PROVE StreamInv'
  BY <1>7, SendStep
<1>8. ASSUME NEW t \in Question, Stream!Save(t) PROVE StreamInv'
  BY <1>8, SaveStep
<1>9. ASSUME NEW t \in Question, Stream!SaveStopped(t) \/ Stream!ReleaseGuard(t) PROVE StreamInv'
  BY <1>9, EndStreamStep
<1>10. ASSUME UNCHANGED <<s1, s6, s7>>, s2' \in BOOLEAN PROVE StreamInv'
  <2>1. StreamTypes'
    BY <1>10 DEF StreamInv, StreamTypes
  <2>2. ASSUME NEW u \in Question
        PROVE  QueueInv(s7[u])' /\ FramesInv(s7[u])' /\ WholeInv(u)' /\ CountInv(u)' /\ DoneInv(u)'
    BY <1>10 DEF StreamInv, QueueInv, FramesInv, WholeInv, CountInv, DoneInv
  <2> QED BY <2>1, <2>2 DEF StreamInv
<1>11. CASE Stream!FlagExpires
  BY <1>10, <1>11 DEF Stream!FlagExpires
<1>12. CASE UNCHANGED Stream!vars
  BY <1>10, <1>12 DEF Stream!vars, StreamInv, StreamTypes
<1> QED BY <1>1, <1>2, <1>3, <1>4, <1>5, <1>6, <1>7, <1>8, <1>9, <1>11, <1>12 DEF Stream!Next

\* At the start there is no frame, and nothing is known or saved.
LEMMA StreamStarts == ASSUME Stream!Init PROVE StreamInv
<1>1. ASSUME NEW t \in Question PROVE s1[t] = Stream!NoTurn /\ s7[t] = Stream!NoIo /\ s6[t] = Stream!NoSave
  BY <1>1 DEF Stream!Init
<1>2. StreamTypes
  <2>1. Stream!NoTurn \in TurnRows
    BY DEF Stream!NoTurn, TurnRows, Stream!Text
  <2>2. Stream!NoIo \in IoRows
    <3>1. <<>> \in Seq(Kinds) /\ <<>> \in Seq(Frames) /\ <<>> \in Seq(SentFrames)
      OBVIOUS
    <3> QED BY <3>1 DEF Stream!NoIo, IoRows
  <2> QED BY <2>1, <2>2 DEF StreamTypes, Stream!Init, Stream!NoSave
<1>3. ASSUME NEW t \in Question
      PROVE  QueueInv(s7[t]) /\ FramesInv(s7[t]) /\ WholeInv(t) /\ CountInv(t) /\ DoneInv(t)
  <2>1. /\ s7[t].task = "run" /\ s7[t].drain = "run" /\ s7[t].custom = <<>> /\ s7[t].unified = <<>>
        /\ s7[t].sent = <<>> /\ s7[t].events = 0 /\ s7[t].known = 0 /\ s1[t].pc = "idle"
    BY <1>1 DEF Stream!NoIo, Stream!NoTurn
  <2>2. QueueInv(s7[t]) /\ FramesInv(s7[t])
    BY <2>1 DEF QueueInv, FramesInv
  <2>3. WholeInv(t) /\ DoneInv(t)
    BY <2>1 DEF WholeInv, DoneInv
  <2>4. EventsOf(s7[t].sent \o s7[t].unified) = {}
    BY <2>1 DEF EventsOf
  <2>5. CountInv(t)
    BY <2>1, <2>4, FS_EmptySet DEF CountInv
  <2> QED BY <2>2, <2>3, <2>5
<1> QED BY <1>2, <1>3 DEF StreamInv

\* A turn that said "done" said and saved what its tools emitted.
LEMMA DoneIsWhole == ASSUME StreamInv PROVE Stream!DoneMeansWhole
<1> SUFFICES ASSUME NEW t \in Question, Stream!Frames(t, "done") > 0
             PROVE  /\ s7[t].sent[Len(s7[t].sent)] = "done"
                    /\ s6[t].tools = Stream!Frames(t, "event")
                    /\ \/ Stream!Frames(t, "event") = s7[t].events
                            /\ (s7[t].unknown => s6[t].answer = "unknown")
                       \/ s6[t].answer = "guard_lost"
  BY DEF Stream!DoneMeansWhole
<1> DEFINE q == s7[t].sent
<1>1. q \in Seq(SentFrames) /\ DoneInv(t)
  BY DEF StreamInv, StreamTypes, IoRows
<1>2. Len(q) \in Nat /\ DOMAIN q = 1..Len(q)
  <2> HIDE DEF q
  <2> QED BY <1>1
<1>3. ASSUME NEW kind
      PROVE  Stream!Frames(t, kind) = Cardinality({i \in 1..Len(q) : q[i] = kind})
  <2> DEFINE P == [i \in 1..Len(q) |-> q[i] = kind]
             n == Len(q)
  <2>1. {i \in 1..n : P[i]} = {i \in 1..n : q[i] = kind}
    OBVIOUS
  <2>2. Stream!Cardinality({i \in 1..n : P[i]}) = Cardinality({i \in 1..n : P[i]})
    <3>1. n \in Nat
      BY <1>2
    <3> HIDE DEF P, n
    <3> QED BY <3>1, StreamCounts
  <2>3. Stream!Frames(t, kind) = Stream!Cardinality({i \in 1..n : q[i] = kind})
    BY <1>2 DEF Stream!Frames
  <2> HIDE DEF P
  <2> QED BY <2>1, <2>2, <2>3
<1>4. Stream!Frames(t, "event") = Cardinality(EventsOf(q))
  BY <1>3 DEF EventsOf
<1>5. PICK i \in 1..Len(q) : q[i] = "done"
  <2>1. CASE {i \in 1..Len(q) : q[i] = "done"} = {}
    BY <1>3, <2>1, FS_EmptySet
  <2> QED BY <2>1
<1> HIDE DEF q
<1> QED BY <1>1, <1>4, <1>5 DEF DoneInv, q

\* A client that has read "done" has read and finds saved all that the tools emitted,
\* unless the guard was lost (_stream_chat, drain_custom_events, _finalize_stream_turn).
THEOREM DoneStreamsAreWhole == Spec => []StreamHolds
<1>1. part = "stream" /\ Init => StreamInv
  BY StreamStarts DEF Init
<1>2. part = "stream" /\ StreamInv /\ [Next]_vars => StreamInv' /\ (part = "stream")'
  <2> SUFFICES ASSUME part = "stream", StreamInv, [Next]_vars
               PROVE  StreamInv' /\ (part = "stream")'
    OBVIOUS
  <2>1. [Stream!Next]_Stream!vars /\ (part = "stream")'
    BY DEF Next, vars, from5, from7, from8, Stream!vars
  <2> QED BY <2>1, StreamStep
<1>3. (part = "stream" => StreamInv) => StreamHolds
  BY DoneIsWhole DEF StreamHolds
<1>4. ~(part = "stream") /\ [Next]_vars => ~(part = "stream")'
  BY PartStays
<1> QED BY <1>1, <1>2, <1>3, <1>4, PTL DEF Spec

-----------------------------------------------------------------------------
(* Settings *)

SettingTypes ==
    /\ s1 \in [{"policy", "list"} -> {-1, 0, 1}]
    /\ s3 \in [{"policy", "list"} -> {"free"} \cup Request \cup Assign]
    /\ s4 \in [Request -> [at : {"idle", "editing", "writing", "written", "refused"},
                           key : {"policy", "list"}, seen : {0, 1}, want : {0, 1}]]
    /\ s5 \in [Assign -> [at : {"idle", "judged", "applied", "refused"}, saw : {0, 1}, locked : BOOLEAN]]
    /\ s10 \in Nat /\ s11 \in Nat \cup {-1} /\ s12 \in [Reader -> Nat \cup {-1}]
    /\ s13 \in Nat /\ s14 \in BOOLEAN

\* A save that has compared its revision holds the tenant's row, and what it saw is still stored;
\* one that has written holds the setting's row too.
SaveInv(a) ==
    s4[a].at \in {"writing", "written"} =>
      /\ s2 = a /\ s4[a].seen = Settings!Effective(s4[a].key)
      /\ s4[a].at = "written" => s3[s4[a].key] = a

\* A write of departments that found the policy's row holds it, and judged by what is stored.
JudgedInv(t) ==
    s5[t].at = "judged" /\ s5[t].locked => s3["policy"] = t /\ s5[t].saw = Settings!Effective("policy")

SettingsInv ==
    /\ SettingTypes /\ Settings!StaleConfigIsLate
    /\ \A a \in Request : SaveInv(a)
    /\ \A t \in Assign : JudgedInv(t)

\* What concerns the settings stays true when only lists and configuration move.
LEMMA SettingsStay ==
    ASSUME SettingsInv, SettingTypes', Settings!StaleConfigIsLate', UNCHANGED <<s1, s2, s3, s4, s5>>
    PROVE  SettingsInv'
  BY DEF SettingsInv, SaveInv, JudgedInv, Settings!Effective

\* A step that changes no setting: locks are taken by who moves, and nobody loses one.
LEMMA DeskMoves ==
    ASSUME SettingsInv, NEW a \in Request, NEW d,
           s4' = [s4 EXCEPT ![a] = d], SettingTypes', SaveInv(a)',
           s2 \in {a, "free"} \/ s2' = s2, s1' = s1, UNCHANGED <<s5, s10, s11, s13, s14>>,
           \A k \in {"policy", "list"} : s3[k] \in {a, "free"} \/ s3'[k] = s3[k]
    PROVE  SettingsInv'
<1>1. ASSUME NEW b \in Request, b # a PROVE SaveInv(b)'
  <2>1. s4'[b] = s4[b] /\ SaveInv(b) /\ b # "free" /\ s4[b].key \in {"policy", "list"}
    BY <1>1, SettingBounds DEF SettingsInv, SettingTypes
  <2> QED BY <1>1, <2>1 DEF SaveInv, Settings!Effective
<1>2. ASSUME NEW t \in Assign PROVE JudgedInv(t)'
  <2>1. JudgedInv(t) /\ t # "free" /\ t # a
    BY SettingBounds DEF SettingsInv
  <2> QED BY <2>1 DEF JudgedInv, Settings!Effective
<1>3. Settings!StaleConfigIsLate'
  BY DEF SettingsInv, Settings!StaleConfigIsLate
<1> QED BY <1>1, <1>2, <1>3 DEF SettingsInv

\* Opening a group, comparing its revision, writing the row.
LEMMA GroupStep ==
    ASSUME SettingsInv, NEW a \in Request,
           \/ \E k \in {"policy", "list"} : Settings!OpenGroup(a, k)
           \/ Settings!CompareRevision(a) \/ Settings!WriteRow(a)
    PROVE  SettingsInv'
<1>1. /\ SettingTypes /\ SaveInv(a) /\ UNCHANGED <<s1, s5, s10, s11, s12, s13, s14>>
      /\ \A k \in {"policy", "list"} : Settings!Effective(k) \in {0, 1}
      /\ s4 \in [Request -> [at : {"idle", "editing", "writing", "written", "refused"},
                             key : {"policy", "list"}, seen : {0, 1}, want : {0, 1}]]
  BY DEF SettingsInv, SettingTypes, Settings!OpenGroup, Settings!CompareRevision, Settings!WriteRow,
         Settings!listVars, Settings!configVars, Settings!Effective, Settings!None, Settings!Default
<1>2. ASSUME NEW k \in {"policy", "list"}, Settings!OpenGroup(a, k) PROVE SettingsInv'
  <2>1. PICK v \in {0, 1} :
          s4' = [s4 EXCEPT ![a] = [at |-> "editing", key |-> k, seen |-> Settings!Effective(k), want |-> v]]
    BY <1>2 DEF Settings!OpenGroup, Settings!Value
  <2>2. UNCHANGED <<s2, s3>>
    BY <1>2 DEF Settings!OpenGroup
  <2>3. SettingTypes'
    BY <1>1, <2>1, <2>2 DEF SettingTypes
  <2>4. SaveInv(a)'
    BY <1>1, <2>1 DEF SaveInv
  <2> QED BY <1>1, <2>1, <2>2, <2>3, <2>4, DeskMoves
<1>3. CASE Settings!CompareRevision(a)
  <2> DEFINE d == [s4[a] EXCEPT !.at = IF s4[a].seen = Settings!Effective(s4[a].key)
                                       THEN "writing" ELSE "refused"]
  <2>1. s4[a].at = "editing" /\ s2 = "free" /\ s2' = a /\ s3' = s3 /\ s4' = [s4 EXCEPT ![a] = d]
    BY <1>1, <1>3 DEF Settings!CompareRevision, Settings!LockTenant
  <2>2. /\ d \in [at : {"idle", "editing", "writing", "written", "refused"},
                  key : {"policy", "list"}, seen : {0, 1}, want : {0, 1}]
        /\ d.at # "written" /\ (d.at = "writing" => d.seen = Settings!Effective(d.key))
    BY <1>1
  <2> HIDE DEF d
  <2>3. SettingTypes' /\ s4'[a] = d
    BY <1>1, <2>1, <2>2 DEF SettingTypes
  <2>4. SaveInv(a)'
    BY <1>1, <2>1, <2>2, <2>3 DEF SaveInv, Settings!Effective
  <2> QED BY <1>1, <2>1, <2>3, <2>4, DeskMoves
<1>4. CASE Settings!WriteRow(a)
  <2> DEFINE d == [s4[a] EXCEPT !.at = "written"]
             k == s4[a].key
  <2>1. /\ s4[a].at = "writing" /\ s3[k] = "free" /\ s3' = [s3 EXCEPT ![k] = a] /\ s2' = s2
        /\ s4' = [s4 EXCEPT ![a] = d] /\ k \in {"policy", "list"}
    BY <1>1, <1>4 DEF Settings!WriteRow
  <2>2. /\ d \in [at : {"idle", "editing", "writing", "written", "refused"},
                  key : {"policy", "list"}, seen : {0, 1}, want : {0, 1}]
        /\ d.at = "written" /\ d.key = k /\ d.seen = s4[a].seen
    BY <1>1
  <2> HIDE DEF d
  <2>3. SettingTypes' /\ s4'[a] = d /\ s3'[k] = a
    BY <1>1, <2>1, <2>2 DEF SettingTypes
  <2>4. SaveInv(a)'
    BY <1>1, <2>1, <2>2, <2>3 DEF SaveInv, Settings!Effective
  <2>5. \A i \in {"policy", "list"} : s3[i] \in {a, "free"} \/ s3'[i] = s3[i]
    BY <1>1, <2>1 DEF SettingTypes
  <2> QED BY <1>1, <2>1, <2>3, <2>4, <2>5, DeskMoves
<1> QED BY <1>2, <1>3, <1>4

\* The end of a save: only who holds both rows changes a setting.
LEMMA SaveEnds == ASSUME SettingsInv, NEW a \in Request, Settings!EndSave(a) PROVE SettingsInv'
<1>1. /\ SettingTypes /\ SaveInv(a) /\ UNCHANGED <<s5, s10, s11, s12, s13, s14>>
      /\ s4' = [s4 EXCEPT ![a] = Settings!Off] /\ a # "free"
      /\ s2' = IF s2 = a THEN "free" ELSE s2
      /\ s3' = [k \in {"policy", "list"} |-> IF s3[k] = a THEN "free" ELSE s3[k]]
  BY SettingBounds DEF SettingsInv, Settings!EndSave, Settings!listVars, Settings!configVars, Settings!Key
<1>2. \/ s4[a].at = "written" /\ s1' = [s1 EXCEPT ![s4[a].key] = s4[a].want]
      \/ s1' = s1
  BY DEF Settings!EndSave
<1>3. s4[a].key \in {"policy", "list"} /\ s4[a].want \in {0, 1}
  BY <1>1 DEF SettingTypes
<1>4. SettingTypes'
  <2>1. Settings!Off \in [at : {"idle", "editing", "writing", "written", "refused"},
                          key : {"policy", "list"}, seen : {0, 1}, want : {0, 1}]
    BY DEF Settings!Off, Settings!Default
  <2>2. s1' \in [{"policy", "list"} -> {-1, 0, 1}]
    BY <1>1, <1>2, <1>3 DEF SettingTypes
  <2>3. s3' \in [{"policy", "list"} -> {"free"} \cup Request \cup Assign]
    BY <1>1 DEF SettingTypes
  <2> QED BY <1>1, <2>1, <2>2, <2>3 DEF SettingTypes
<1>5. ASSUME NEW b \in Request PROVE SaveInv(b)'
  <2>1. CASE b = a
    BY <1>1, <2>1 DEF SaveInv, Settings!Off, SettingTypes
  <2>2. CASE b # a
    <3>1. s4'[b] = s4[b] /\ SaveInv(b) /\ s4[b].key \in {"policy", "list"}
      BY <1>1, <2>2 DEF SettingsInv, SettingTypes
    <3>2. s4[b].at \in {"writing", "written"} => s2 = b /\ s1' = s1
      BY <1>1, <1>2, <2>2, <3>1 DEF SaveInv
    <3> QED BY <1>1, <2>2, <3>1, <3>2 DEF SaveInv, Settings!Effective
  <2> QED BY <2>1, <2>2
<1>6. ASSUME NEW t \in Assign PROVE JudgedInv(t)'
  <2>1. JudgedInv(t) /\ t # a
    BY SettingBounds DEF SettingsInv
  <2>2. s3["policy"] = t => s3'["policy"] = t /\ s1'["policy"] = s1["policy"]
    BY <1>1, <1>2, <1>3, <2>1 DEF SaveInv, SettingTypes
  <2> QED BY <1>1, <2>1, <2>2 DEF JudgedInv, Settings!Effective
<1>7. Settings!StaleConfigIsLate'
  BY <1>1 DEF SettingsInv, Settings!StaleConfigIsLate
<1> QED BY <1>4, <1>5, <1>6, <1>7 DEF SettingsInv

\* A write of departments is judged, and ends.
LEMMA AssignStep ==
    ASSUME SettingsInv, NEW t \in Assign, Settings!Judge(t) \/ Settings!EndAssign(t)
    PROVE  SettingsInv'
<1>1. /\ SettingTypes /\ JudgedInv(t) /\ UNCHANGED <<s1, s2, s4, s10, s11, s12, s13, s14>> /\ t # "free"
      /\ Settings!Effective("policy") \in {0, 1}
      /\ s5 \in [Assign -> [at : {"idle", "judged", "applied", "refused"}, saw : {0, 1}, locked : BOOLEAN]]
  BY SettingBounds
     DEF SettingsInv, SettingTypes, Settings!Judge, Settings!EndAssign, Settings!listVars,
         Settings!configVars, Settings!Effective, Settings!None, Settings!Default
<1>2. \E d \in [at : {"idle", "judged", "applied", "refused"}, saw : {0, 1}, locked : BOOLEAN] :
        /\ s5' = [s5 EXCEPT ![t] = d]
        /\ d.at = "judged" /\ d.locked => s3'["policy"] = t /\ d.saw = Settings!Effective("policy")
  <2>1. CASE Settings!Judge(t)
    <3> DEFINE d == [at |-> "judged", saw |-> Settings!Effective("policy"), locked |-> s1["policy"] # -1]
    <3>1. s5' = [s5 EXCEPT ![t] = d]
      BY <2>1 DEF Settings!Judge, Settings!LockPolicy, Settings!None
    <3>2. d.locked => s3'["policy"] = t
      BY <1>1, <2>1 DEF Settings!Judge, Settings!LockPolicy, Settings!None, SettingTypes
    <3>3. d \in [at : {"idle", "judged", "applied", "refused"}, saw : {0, 1}, locked : BOOLEAN]
      BY <1>1
    <3> QED BY <3>1, <3>2, <3>3
  <2>2. CASE Settings!EndAssign(t)
    <3>1. PICK end \in {"applied", "refused"} : s5' = [s5 EXCEPT ![t].at = end]
      BY <2>2 DEF Settings!EndAssign
    <3> DEFINE d == [s5[t] EXCEPT !.at = end]
    <3>2. s5' = [s5 EXCEPT ![t] = d]
      BY <1>1, <3>1
    <3>3. d \in [at : {"idle", "judged", "applied", "refused"}, saw : {0, 1}, locked : BOOLEAN] /\ d.at = end
      BY <1>1
    <3> QED BY <3>2, <3>3
  <2> QED BY <2>1, <2>2
<1>3. \A k \in {"policy", "list"} : s3'[k] \in {"free"} \cup Request \cup Assign /\ (s3[k] \in {t, "free"} \/ s3'[k] = s3[k])
  <2>1. CASE Settings!Judge(t)
    BY <1>1, <2>1 DEF Settings!Judge, Settings!LockPolicy, Settings!None, SettingTypes
  <2>2. CASE Settings!EndAssign(t)
    BY <1>1, <2>2 DEF Settings!EndAssign, Settings!Key, SettingTypes
  <2> QED BY <2>1, <2>2
<1>4. s3' \in [{"policy", "list"} -> {"free"} \cup Request \cup Assign]
  <2>1. CASE Settings!Judge(t)
    BY <1>1, <2>1 DEF Settings!Judge, Settings!LockPolicy, SettingTypes
  <2>2. CASE Settings!EndAssign(t)
    BY <1>1, <1>3, <2>2 DEF Settings!EndAssign, Settings!Key
  <2> QED BY <2>1, <2>2
<1>5. SettingTypes'
  BY <1>1, <1>2, <1>4 DEF SettingTypes
<1>6. ASSUME NEW a \in Request PROVE SaveInv(a)'
  <2>1. SaveInv(a) /\ a \notin {t, "free"} /\ s4[a].key \in {"policy", "list"}
    BY SettingBounds DEF SettingsInv, SettingTypes
  <2> QED BY <1>1, <1>3, <2>1 DEF SaveInv, Settings!Effective
<1>7. ASSUME NEW u \in Assign PROVE JudgedInv(u)'
  <2>1. CASE u = t
    BY <1>1, <1>2, <2>1 DEF JudgedInv, Settings!Effective
  <2>2. CASE u # t
    <3>1. JudgedInv(u) /\ u # "free" /\ s5'[u] = s5[u]
      BY <1>1, <1>2, <2>2, SettingBounds DEF SettingsInv
    <3> QED BY <1>1, <1>3, <2>2, <3>1 DEF JudgedInv, Settings!Effective
  <2> QED BY <2>1, <2>2
<1>8. Settings!StaleConfigIsLate'
  BY <1>1 DEF SettingsInv, Settings!StaleConfigIsLate
<1> QED BY <1>5, <1>6, <1>7, <1>8 DEF SettingsInv

\* Lists and custom configuration.
LEMMA CacheStep ==
    ASSUME SettingsInv,
           \/ \E p \in Proc : \/ Settings!LoadBlocklist(p) \/ Settings!LoadForbiddenTopics(p)
                              \/ Settings!LoadForbiddenUrls(p) \/ Settings!GetAiConfig(p)
                              \/ Settings!KeepList(p) \/ Settings!ExpireList(p)
           \/ Settings!ChangeConfig \/ Settings!EvictConfig \/ Settings!ExpireConfig
           \/ \E q \in Reader : Settings!ReadConfig(q) \/ Settings!ShareConfig(q)
           \/ UNCHANGED Settings!vars
    PROVE  SettingsInv'
<1>1. /\ SettingTypes /\ Settings!StaleConfigIsLate /\ UNCHANGED <<s1, s2, s3, s4, s5>>
  BY DEF SettingsInv, Settings!LoadBlocklist, Settings!LoadForbiddenTopics, Settings!LoadForbiddenUrls,
         Settings!GetAiConfig, Settings!Load, Settings!KeepList, Settings!ExpireList, Settings!ChangeConfig,
         Settings!EvictConfig, Settings!ExpireConfig, Settings!ReadConfig, Settings!ShareConfig,
         Settings!settingVars, Settings!vars
<1>2. /\ s10 \in Nat /\ s11 \in Nat \cup {-1} /\ s12 \in [Reader -> Nat \cup {-1}]
      /\ s13 \in Nat /\ s14 \in BOOLEAN
  BY <1>1 DEF SettingTypes
<1> USE DEF Settings!StaleConfigIsLate, Settings!None
<1>3. CASE UNCHANGED Settings!configVars
  BY <1>1, <1>3, SettingsStay DEF Settings!configVars, SettingTypes
<1>4. CASE Settings!ChangeConfig
  BY <1>1, <1>2, <1>4, SettingsStay DEF Settings!ChangeConfig, SettingTypes
<1>5. CASE Settings!EvictConfig
  <2>1. /\ s10' = s10 /\ s12' = s12 /\ s13 > 0 /\ s13' = s13 - 1
        /\ \/ s11' = -1 /\ s14' = FALSE
           \/ s11' = s11 /\ s14' = TRUE
    BY <1>5 DEF Settings!EvictConfig
  <2>2. s10' \in Nat /\ s11' \in Nat \cup {-1} /\ s12' \in [Reader -> Nat \cup {-1}] /\ s13' \in Nat
    BY <1>2, <2>1
  <2>3. s14' \in BOOLEAN
    BY <1>2, <2>1
  <2>4. SettingTypes'
    BY <1>1, <2>2, <2>3 DEF SettingTypes
  <2>5. Settings!StaleConfigIsLate'
    BY <1>2, <2>1
  <2> QED BY <1>1, <2>4, <2>5, SettingsStay
<1>6. CASE Settings!ExpireConfig
  BY <1>1, <1>2, <1>6, SettingsStay DEF Settings!ExpireConfig, SettingTypes
<1>7. ASSUME NEW q \in Reader, Settings!ReadConfig(q) PROVE SettingsInv'
  BY <1>1, <1>2, <1>7, SettingsStay DEF Settings!ReadConfig, SettingTypes
<1>8. ASSUME NEW q \in Reader, Settings!ShareConfig(q) PROVE SettingsInv'
  <2>1. /\ s10' = s10 /\ s13' = s13 /\ s12' = [s12 EXCEPT ![q] = -1]
        /\ \/ s11' = s12[q] /\ s14' = (s12[q] < s10)
           \/ s11' = s11 /\ s14' = s14
    BY <1>8 DEF Settings!ShareConfig
  <2>2. s12[q] \in Nat \cup {-1}
    BY <1>2
  <2>3. s11' \in Nat \cup {-1} /\ s12' \in [Reader -> Nat \cup {-1}]
    BY <1>2, <2>1, <2>2
  <2>6. s14' \in BOOLEAN
    <3>1. (s12[q] < s10) \in BOOLEAN
      OBVIOUS
    <3> QED BY <1>2, <2>1, <3>1, Zenon
  <2>4. SettingTypes'
    BY <1>1, <1>2, <2>1, <2>3, <2>6 DEF SettingTypes
  <2>5. Settings!StaleConfigIsLate'
    BY <1>1, <1>2, <2>1, <2>2
  <2> QED BY <1>1, <2>4, <2>5, SettingsStay
<1> QED BY <1>3, <1>4, <1>5, <1>6, <1>7, <1>8
        DEF Settings!LoadBlocklist, Settings!LoadForbiddenTopics, Settings!LoadForbiddenUrls,
            Settings!GetAiConfig, Settings!Load, Settings!KeepList, Settings!ExpireList,
            Settings!vars

\* Every step keeps the invariant.
LEMMA SettingsStep == ASSUME SettingsInv, [Settings!Next]_Settings!vars PROVE SettingsInv'
  BY GroupStep, SaveEnds, AssignStep, CacheStep DEF Settings!Next, Settings!Key

\* Nobody works and nothing is locked.
LEMMA SettingsStart == Settings!Init => SettingsInv
<1> SUFFICES ASSUME Settings!Init PROVE SettingsInv
  OBVIOUS
<1> USE DEF Settings!Init, Settings!Key, Settings!None, Settings!Default, Settings!Off
<1>1. SettingTypes
  <2>1. s1 \in [{"policy", "list"} -> {-1, 0, 1}]
    OBVIOUS
  <2> QED BY <2>1 DEF SettingTypes
<1>2. \A a \in Request : SaveInv(a)
  BY DEF SaveInv
<1>3. \A t \in Assign : JudgedInv(t)
  BY DEF JudgedInv
<1> QED BY <1>1, <1>2, <1>3 DEF SettingsInv, Settings!StaleConfigIsLate

\* A setting changes by the save whose administrator saw its value.
LEMMA SavesSee == ASSUME SettingsInv, [Settings!Next]_Settings!vars PROVE Settings!NoLostSave
<1> SUFFICES ASSUME NEW k \in {"policy", "list"}, s1'[k] # s1[k]
             PROVE  \E a \in Request : /\ s4[a].at = "written" /\ s4'[a].at = "idle"
                                       /\ s4[a].key = k /\ s4[a].seen = Settings!Effective(k)
  BY DEF Settings!NoLostSave, Settings!Key
<1>1. PICK a \in Request : Settings!EndSave(a)
  <2>1. \A a \in Request : /\ \A i \in Settings!Key : Settings!OpenGroup(a, i) => s1' = s1
                           /\ Settings!CompareRevision(a) => s1' = s1
                           /\ Settings!WriteRow(a) => s1' = s1
    BY DEF Settings!OpenGroup, Settings!CompareRevision, Settings!WriteRow
  <2>2. \A t \in Assign : Settings!Judge(t) \/ Settings!EndAssign(t) => s1' = s1
    BY DEF Settings!Judge, Settings!EndAssign
  <2>3. ASSUME NEW p \in Proc,
               \/ Settings!LoadBlocklist(p) \/ Settings!LoadForbiddenTopics(p)
               \/ Settings!LoadForbiddenUrls(p) \/ Settings!GetAiConfig(p)
               \/ Settings!KeepList(p) \/ Settings!ExpireList(p)
        PROVE  s1' = s1
    BY <2>3 DEF Settings!LoadBlocklist, Settings!LoadForbiddenTopics, Settings!LoadForbiddenUrls,
           Settings!GetAiConfig, Settings!Load, Settings!KeepList, Settings!ExpireList, Settings!settingVars
  <2>4. ASSUME \/ Settings!ChangeConfig \/ Settings!EvictConfig \/ Settings!ExpireConfig
               \/ UNCHANGED Settings!vars
        PROVE  s1' = s1
    BY <2>4 DEF Settings!ChangeConfig, Settings!EvictConfig, Settings!ExpireConfig, Settings!vars, Settings!settingVars
  <2>5. \A q \in Reader : Settings!ReadConfig(q) \/ Settings!ShareConfig(q) => s1' = s1
    BY DEF Settings!ReadConfig, Settings!ShareConfig, Settings!settingVars
  <2> QED BY <2>1, <2>2, <2>3, <2>4, <2>5 DEF Settings!Next
<1>2. /\ s4[a].at = "written" /\ s1' = [s1 EXCEPT ![s4[a].key] = s4[a].want]
      /\ s4' = [s4 EXCEPT ![a] = Settings!Off]
  BY <1>1 DEF Settings!EndSave
<1>3. SettingTypes /\ SaveInv(a)
  BY DEF SettingsInv
<1>4. s4[a].key = k
  BY <1>2, <1>3 DEF SettingTypes
<1> QED BY <1>2, <1>3, <1>4 DEF SaveInv, SettingTypes, Settings!Off

\* A write that holds the policy's row ends under the policy in force.
LEMMA JudgedInForce == ASSUME SettingsInv, [Settings!Next]_Settings!vars PROVE Settings!JudgedByPolicyInForce
<1> SUFFICES ASSUME NEW t \in Assign, s5[t].at = "judged", s5'[t].at = "applied", s5[t].locked
             PROVE  Settings!Effective("policy") = 0
  BY DEF Settings!JudgedByPolicyInForce
<1>1. JudgedInv(t) /\ SettingTypes
  BY DEF SettingsInv
<1>2. Settings!EndAssign(t)
  <2>1. s5'[t].at # s5[t].at
    OBVIOUS
  <2>2. \A a \in Request : /\ \A i \in Settings!Key : Settings!OpenGroup(a, i) => s5' = s5
                           /\ Settings!CompareRevision(a) => s5' = s5
                           /\ Settings!WriteRow(a) => s5' = s5
                           /\ Settings!EndSave(a) => s5' = s5
    BY DEF Settings!OpenGroup, Settings!CompareRevision, Settings!WriteRow, Settings!EndSave
  <2>3. \A u \in Assign : /\ Settings!Judge(u) => s5'[t].at # "applied"
                          /\ Settings!EndAssign(u) => u = t
    BY <1>1 DEF Settings!Judge, Settings!LockPolicy, Settings!EndAssign, SettingTypes
  <2>4. ASSUME NEW p \in Proc,
               \/ Settings!LoadBlocklist(p) \/ Settings!LoadForbiddenTopics(p)
               \/ Settings!LoadForbiddenUrls(p) \/ Settings!GetAiConfig(p)
               \/ Settings!KeepList(p) \/ Settings!ExpireList(p)
        PROVE  s5' = s5
    BY <2>4 DEF Settings!LoadBlocklist, Settings!LoadForbiddenTopics, Settings!LoadForbiddenUrls,
           Settings!GetAiConfig, Settings!Load, Settings!KeepList, Settings!ExpireList, Settings!settingVars
  <2>5. ASSUME \/ Settings!ChangeConfig \/ Settings!EvictConfig \/ Settings!ExpireConfig
               \/ UNCHANGED Settings!vars
        PROVE  s5' = s5
    BY <2>5 DEF Settings!ChangeConfig, Settings!EvictConfig, Settings!ExpireConfig, Settings!vars, Settings!settingVars
  <2>6. \A q \in Reader : Settings!ReadConfig(q) \/ Settings!ShareConfig(q) => s5' = s5
    BY DEF Settings!ReadConfig, Settings!ShareConfig, Settings!settingVars
  <2> QED BY <2>1, <2>2, <2>3, <2>4, <2>5, <2>6 DEF Settings!Next
<1>3. s5[t].saw = 0
  BY <1>2 DEF Settings!EndAssign
<1> QED BY <1>1, <1>3 DEF JudgedInv

\* No save overwrites a value its administrator did not see, departments are judged by the policy
\* in force, and Redis serves an old configuration only while it is being evicted or was
\* overtaken: for any number of sessions and processes (settings_service.py, core/cache.py).
THEOREM SettingsAreCurrent == Spec => SettingsHold
<1>1. part = "settings" /\ Init => SettingsInv
  BY SettingsStart DEF Init
<1>2. part = "settings" /\ [Next]_vars => [Settings!Next]_Settings!vars /\ (part = "settings")'
  BY DEF Next, vars, from5, from7, from8, from9, from10, from13,
         Settings!vars, Settings!settingVars, Settings!listVars, Settings!configVars
<1>3. part = "settings" /\ SettingsInv /\ [Next]_vars => SettingsInv' /\ (part = "settings")'
  BY <1>2, SettingsStep
<1>4. (part = "settings" => SettingsInv) => (part = "settings" => Settings!StaleConfigIsLate)
  BY DEF SettingsInv
<1>5. (part = "settings" => SettingsInv) /\ [Next]_vars =>
        [part = "settings" => Settings!NoLostSave /\ Settings!JudgedByPolicyInForce]_vars
  BY <1>2, SavesSee, JudgedInForce
<1>6. ~(part = "settings") /\ [Next]_vars => ~(part = "settings")'
  BY PartStays
<1>7. SettingsHold <=>
        /\ [](part = "settings" => Settings!StaleConfigIsLate)
        /\ [][part = "settings" => Settings!NoLostSave /\ Settings!JudgedByPolicyInForce]_vars
  BY DEF SettingsHold
<1> QED BY <1>1, <1>3, <1>4, <1>5, <1>6, <1>7, PTL DEF Spec

-----------------------------------------------------------------------------
(* The tool gateway *)

GatewayPlaces == {"idle", "checks", "capacity", "dryrun", "log", "guard", "invoke", "preview", "previewed",
                  "readback", "childlog", "handoff", "readhandoff", "setup", "setupfailed", "wait", "done"}
GatewayAnswers == {"none", "refused", "ok", "failed", "unknown", "nothing"}
GatewayCalls == [at : GatewayPlaces, kind : {"read", "write", "preview"}, may : BOOLEAN, inj : BOOLEAN,
                 go : BOOLEAN, dry : {"ok", "failed"}, told : GatewayAnswers]
GatewayRows == [st : {"none", "pending", "running", "success", "failed", "succeeded", "rejected", "expired"},
                proof : {"none", "preflight", "preview"}, bound : BOOLEAN]

GatewayTypes ==
    /\ s1 \in [Request -> GatewayCalls] /\ s2 \in [Request -> GatewayRows] /\ s3 \in [Request -> GatewayRows]
    /\ s4 \in [Request -> {"none", "pending", "running", "succeeded", "failed", "rejected", "expired"}]
    /\ s5 \in [Request -> {"none", "open", "expired"}]
    /\ s6 \in BOOLEAN /\ s7 \in BOOLEAN

\* The places of a call before any batch of it was committed.
BeforeBatch == {"idle", "checks", "capacity", "dryrun", "log", "guard", "invoke", "setup", "preview"}

\* What PreviewAnswerIsTrue says of one call.
AnswerIsTrue(c) ==
    s1[c].kind = "preview" /\ ~s1[c].inj =>
      /\ s1[c].told = "failed" => s5[c] = "none" \/ s4[c] \in {"rejected", "expired"}
      /\ s1[c].told = "ok" => s5[c] # "none" /\ (s1[c].go => s4[c] = "succeeded")

\* A call knows by its place whether its batch was committed, and its audit row proves it.
GatewayCallInv(c) ==
    /\ s1[c].at # "done" => s1[c].told = "none"
    /\ s1[c].at \in BeforeBatch => s5[c] = "none"
    /\ s2[c].proof = "preview" => s5[c] # "none"
    /\ s1[c].kind = "preview" /\ ~s1[c].inj =>
         /\ s1[c].at \notin {"setup", "setupfailed", "invoke"}
         /\ s1[c].at \in {"previewed", "childlog", "handoff", "readhandoff", "wait"} => s5[c] # "none"
         /\ s1[c].at \in {"childlog", "handoff", "readhandoff", "wait"} => s1[c].go
    /\ AnswerIsTrue(c)

GatewayInv == GatewayTypes /\ \A c \in Request : GatewayCallInv(c)

\* Call c goes to a place with an answer, and the others stay.
CallMoves(c, a, t) ==
    /\ s1' \in [Request -> GatewayCalls] /\ \A d \in Request \ {c} : s1'[d] = s1[d]
    /\ s1'[c].at = a /\ s1'[c].told = t /\ s1'[c].kind = s1[c].kind /\ s1'[c].inj = s1[c].inj
    /\ s1'[c].go = s1[c].go

\* Going on, and answering.
LEMMA CallGoes ==
    ASSUME GatewayTypes, NEW c \in Request, NEW a \in GatewayPlaces, Gateway!Goto(c, a)
    PROVE  CallMoves(c, a, s1[c].told)
  BY DEF GatewayTypes, GatewayCalls, Gateway!Goto, CallMoves

\* A call that answers is over.
LEMMA CallTells ==
    ASSUME GatewayTypes, NEW c \in Request, NEW t \in GatewayAnswers, Gateway!Tell(c, t)
    PROVE  CallMoves(c, "done", t)
<1> DEFINE x == [s1[c] EXCEPT !.at = "done", !.told = t]
<1>1. "done" \in GatewayPlaces
  BY DEF GatewayPlaces
<1>2. s1[c] \in GatewayCalls /\ s1 \in [Request -> GatewayCalls]
  BY DEF GatewayTypes
<1>3. s1' = [s1 EXCEPT ![c] = x]
  BY <1>2 DEF Gateway!Tell
<1>4. /\ x \in GatewayCalls /\ x.at = "done" /\ x.told = t /\ x.kind = s1[c].kind
      /\ x.inj = s1[c].inj /\ x.go = s1[c].go
  BY <1>1, <1>2 DEF GatewayCalls
<1> HIDE DEF x
<1> QED BY <1>2, <1>3, <1>4 DEF CallMoves

\* A step of one call: the others have what they had.
LEMMA OneCall ==
    ASSUME GatewayInv, NEW c \in Request, NEW a, NEW t, CallMoves(c, a, t), GatewayCallInv(c)',
           s2' \in [Request -> GatewayRows], s3' \in [Request -> GatewayRows],
           s4' \in [Request -> {"none", "pending", "running", "succeeded", "failed", "rejected", "expired"}],
           s5' \in [Request -> {"none", "open", "expired"}],
           \A d \in Request \ {c} : s2'[d] = s2[d] /\ s4'[d] = s4[d] /\ s5'[d] = s5[d],
           UNCHANGED <<s6, s7>>
    PROVE  GatewayInv'
<1>1. GatewayTypes'
  BY DEF GatewayInv, GatewayTypes, CallMoves
<1>2. ASSUME NEW d \in Request, d # c PROVE GatewayCallInv(d)'
  <2>1. s1'[d] = s1[d] /\ s2'[d] = s2[d] /\ s4'[d] = s4[d] /\ s5'[d] = s5[d] /\ GatewayCallInv(d)
    BY <1>2 DEF GatewayInv, CallMoves
  <2> QED BY <2>1 DEF GatewayCallInv, AnswerIsTrue
<1> QED BY <1>1, <1>2 DEF GatewayInv

\* A step of one call that touches no row.
LEMMA QuietCall ==
    ASSUME GatewayInv, NEW c \in Request, NEW a, NEW t, CallMoves(c, a, t), UNCHANGED <<s2, s3, s4, s5, s6, s7>>,
           GatewayCallInv(c) => GatewayCallInv(c)'
    PROVE  GatewayInv'
  BY OneCall DEF GatewayInv, GatewayTypes

\* What is written at the end of a row leaves its proof alone.
LEMMA RowFinishes ==
    ASSUME NEW row \in GatewayRows, NEW st \in {"success", "failed"}, NEW r \in Gateway!Finished(row, st)
    PROVE  r \in GatewayRows /\ r.proof = row.proof /\ (row.st = "none" => r.st = "none")
  BY DEF Gateway!Finished, GatewayRows

\* The end of a call's audit row.
LEMMA LogFinishes ==
    ASSUME GatewayTypes, NEW c \in Request, NEW st \in {"success", "failed"}, Gateway!FinishLog(c, st)
    PROVE  /\ s2' \in [Request -> GatewayRows] /\ s3' = s3 /\ s2'[c].proof = s2[c].proof
           /\ (s2[c].st = "none" => s2'[c].st = "none")
           /\ \A d \in Request \ {c} : s2'[d] = s2[d]
<1>1. PICK r \in Gateway!Finished(s2[c], st) : s2' = [s2 EXCEPT ![c] = r] /\ s3' = s3
  BY DEF Gateway!FinishLog
<1>2. s2 \in [Request -> GatewayRows] /\ s2[c] \in GatewayRows
  BY DEF GatewayTypes
<1>3. r \in GatewayRows /\ r.proof = s2[c].proof /\ (s2[c].st = "none" => r.st = "none")
  BY <1>1, <1>2, RowFinishes
<1> QED BY <1>1, <1>2, <1>3

\* Before the audit row, and everywhere that a call only goes on or gives up.
LEMMA CallGoesOn ==
    ASSUME GatewayInv, NEW c \in Request,
           \/ Gateway!Begin(c) \/ Gateway!Refuse(c) \/ Gateway!Permit(c) \/ Gateway!Capacity(c)
           \/ Gateway!DryRun(c) \/ Gateway!PassGuard(c) \/ Gateway!PreviewFails(c)
           \/ Gateway!PreviewCommitLost(c) \/ Gateway!PreviewEmitted(c) \/ Gateway!HandOffFails(c)
           \/ Gateway!ReadHandOff(c) \/ Gateway!SetUpFails(c) \/ Gateway!Crash(c)
    PROVE  GatewayInv'
<1>1. GatewayTypes /\ s1 \in [Request -> GatewayCalls] /\ GatewayCallInv(c)
  BY DEF GatewayInv, GatewayTypes
<1>2. UNCHANGED <<s2, s3, s4, s5, s6, s7>>
  BY DEF Gateway!Begin, Gateway!Refuse, Gateway!Permit, Gateway!Capacity, Gateway!DryRun, Gateway!PassGuard,
         Gateway!PreviewFails, Gateway!PreviewCommitLost, Gateway!PreviewEmitted, Gateway!HandOffFails,
         Gateway!ReadHandOff, Gateway!SetUpFails, Gateway!Crash, Gateway!rows
<1> USE DEF Gateway!At, GatewayCallInv, AnswerIsTrue, BeforeBatch
<1>3. CASE Gateway!Begin(c)
  <2>1. PICK k \in {"read", "write", "preview"}, inj \in BOOLEAN, go \in BOOLEAN :
          s1' = [s1 EXCEPT ![c] = [s1[c] EXCEPT !.at = "checks", !.kind = k, !.may = s6, !.inj = inj, !.go = go]]
    BY <1>1, <1>3 DEF Gateway!Begin, Gateway!Kinds
  <2>2. s1[c].at = "idle" /\ s6 \in BOOLEAN
    BY <1>1, <1>3 DEF Gateway!Begin, GatewayTypes
  <2> DEFINE x == [s1[c] EXCEPT !.at = "checks", !.kind = k, !.may = s6, !.inj = inj, !.go = go]
  <2>3. x \in GatewayCalls /\ x.at = "checks" /\ x.told = s1[c].told
    BY <1>1, <2>2 DEF GatewayCalls, GatewayPlaces
  <2> HIDE DEF x
  <2>4. s1' = [s1 EXCEPT ![c] = x]
    BY <2>1 DEF x
  <2>5. GatewayTypes'
    BY <1>1, <1>2, <2>3, <2>4 DEF GatewayTypes
  <2>6. ASSUME NEW d \in Request PROVE GatewayCallInv(d)'
    <3>1. CASE d = c
      BY <1>1, <1>2, <2>2, <2>3, <2>4, <3>1
    <3>2. CASE d # c
      BY <1>1, <1>2, <2>4, <3>2 DEF GatewayInv
    <3> QED BY <3>1, <3>2
  <2> QED BY <2>5, <2>6 DEF GatewayInv
<1>4. ASSUME NEW t \in {"refused", "unknown", "nothing"}, Gateway!Tell(c, t) PROVE GatewayInv'
  <2>1. t \in GatewayAnswers
    BY DEF GatewayAnswers
  <2>2. CallMoves(c, "done", t)
    BY <1>1, <1>4, <2>1, CallTells
  <2>3. GatewayCallInv(c)'
    BY <1>1, <1>2, <2>2 DEF CallMoves
  <2> QED BY <1>2, <2>2, <2>3, QuietCall
<1>5. ASSUME NEW a \in GatewayPlaces, Gateway!Goto(c, a), s1[c].at # "done", a # "done",
             a \in BeforeBatch => s1[c].at \in BeforeBatch,
             s1[c].kind = "preview" /\ ~s1[c].inj => 
               /\ a \notin {"setup", "setupfailed", "invoke"}
               /\ a \in {"previewed", "childlog", "handoff", "readhandoff", "wait"} =>
                    s1[c].at \in {"previewed", "childlog", "handoff", "readhandoff"}
               /\ a \in {"childlog", "handoff", "readhandoff", "wait"} => s1[c].go
      PROVE  GatewayInv'
  <2>1. CallMoves(c, a, s1[c].told)
    BY <1>1, <1>5, CallGoes
  <2>2. GatewayCallInv(c)'
    BY <1>1, <1>2, <1>5, <2>1 DEF CallMoves
  <2> QED BY <1>2, <2>1, <2>2, QuietCall
<1> USE DEF GatewayPlaces
<1>6. CASE Gateway!Refuse(c) \/ Gateway!PreviewFails(c) \/ Gateway!Crash(c)
  BY <1>4, <1>6 DEF Gateway!Refuse, Gateway!PreviewFails, Gateway!Crash, Gateway!Unknown
<1>7. CASE Gateway!Permit(c)
  <2>1. s1[c].at = "checks" /\ (Gateway!Goto(c, "capacity") \/ Gateway!Goto(c, "log") \/ Gateway!Tell(c, "refused"))
    BY <1>7 DEF Gateway!Permit
  <2> QED BY <1>4, <1>5, <2>1
<1>8. CASE Gateway!Capacity(c)
  <2>1. s1[c].at = "capacity" /\ (Gateway!Goto(c, "dryrun") \/ Gateway!Tell(c, "refused"))
    BY <1>8 DEF Gateway!Capacity
  <2> QED BY <1>4, <1>5, <2>1
<1>9. CASE Gateway!DryRun(c)
  <2>1. PICK o \in {"ok", "failed"} : s1' = [s1 EXCEPT ![c].at = "log", ![c].dry = o]
    BY <1>9 DEF Gateway!DryRun
  <2>2. CallMoves(c, "log", s1[c].told) /\ s1[c].at = "dryrun"
    BY <1>1, <1>9, <2>1 DEF CallMoves, GatewayCalls, Gateway!DryRun
  <2>3. GatewayCallInv(c)'
    BY <1>1, <1>2, <2>2 DEF CallMoves
  <2> QED BY <1>2, <2>2, <2>3, QuietCall
<1>10. CASE Gateway!PassGuard(c)
  <2>1. /\ s1[c].at = "guard"
        /\ \/ Gateway!IsHitl(c) /\ Gateway!Goto(c, "setup")
           \/ s1[c].kind = "preview" /\ Gateway!Goto(c, "preview")
           \/ s1[c].kind # "preview" /\ Gateway!Goto(c, "invoke")
    BY <1>10 DEF Gateway!PassGuard
  <2> QED BY <1>5, <2>1 DEF Gateway!IsHitl
<1>11. CASE Gateway!PreviewCommitLost(c)
  BY <1>5, <1>11 DEF Gateway!PreviewCommitLost
<1>13. CASE Gateway!HandOffFails(c)
  BY <1>1, <1>5, <1>13 DEF Gateway!HandOffFails
<1>14. CASE Gateway!ReadHandOff(c)
  <2>1. s1[c].at = "readhandoff" /\ (Gateway!Goto(c, "wait") \/ Gateway!Tell(c, "unknown"))
    BY <1>14 DEF Gateway!ReadHandOff, Gateway!Unknown
  <2> QED BY <1>1, <1>4, <1>5, <2>1
<1>15. CASE Gateway!SetUpFails(c)
  BY <1>1, <1>5, <1>15 DEF Gateway!SetUpFails
<1>12. CASE Gateway!PreviewEmitted(c)
  <2>1. /\ s1[c].at = "previewed"
        /\ \/ Gateway!Tell(c, "unknown")
           \/ s1[c].go /\ Gateway!Goto(c, "childlog")
           \/ ~s1[c].go /\ Gateway!Tell(c, "ok")
    BY <1>12 DEF Gateway!PreviewEmitted, Gateway!Unknown
  <2>2. ASSUME ~s1[c].go, Gateway!Tell(c, "ok") PROVE GatewayInv'
    <3>1. CallMoves(c, "done", "ok")
      BY <1>1, <2>2, CallTells DEF GatewayAnswers
    <3>2. GatewayCallInv(c)'
      BY <1>1, <1>2, <2>1, <2>2, <3>1 DEF CallMoves
    <3> QED BY <1>2, <3>1, <3>2, QuietCall
  <2> QED BY <1>4, <1>5, <2>1, <2>2
<1> QED BY <1>3, <1>6, <1>7, <1>8, <1>9, <1>10, <1>11, <1>12, <1>13, <1>14, <1>15

\* The audit row is written, or its repeated failure refused, or a read ends.
LEMMA LogStep ==
    ASSUME GatewayInv, NEW c \in Request,
           \/ Gateway!StartLog(c) \/ Gateway!RepeatedFailure(c) \/ Gateway!Invoke(c)
           \/ Gateway!PreviewFieldErrors(c) \/ Gateway!SetUpFailed(c)
    PROVE  GatewayInv'
<1>1. GatewayTypes /\ GatewayCallInv(c)
  BY DEF GatewayInv
<1>2. s2 \in [Request -> GatewayRows] /\ s2[c] \in GatewayRows
  BY <1>1 DEF GatewayTypes
<1>3. UNCHANGED <<s3, s4, s5, s6, s7>>
  BY DEF Gateway!StartLog, Gateway!RepeatedFailure, Gateway!Invoke, Gateway!PreviewFieldErrors,
         Gateway!SetUpFailed, Gateway!FinishLog
<1> USE DEF Gateway!At, GatewayPlaces, GatewayAnswers
<1>4. CASE Gateway!StartLog(c)
  <2>1. /\ s1[c].at = "log"
        /\ \/ s2' = [s2 EXCEPT ![c] = Gateway!StartRow(c)] /\ (Gateway!Tell(c, "failed") \/ Gateway!Goto(c, "guard"))
           \/ s2' = s2 /\ Gateway!Tell(c, "failed")
    BY <1>4 DEF Gateway!StartLog
  <2>2. Gateway!StartRow(c) \in GatewayRows /\ Gateway!StartRow(c).proof # "preview"
    BY DEF Gateway!StartRow, Gateway!NoLog, Gateway!IsHitl, GatewayRows
  <2>3. s2' \in [Request -> GatewayRows] /\ (\A d \in Request \ {c} : s2'[d] = s2[d])
        /\ (s2'[c].proof = s2[c].proof \/ s2'[c].proof # "preview")
    BY <1>2, <2>1, <2>2
  <2>4. CallMoves(c, "done", "failed") \/ CallMoves(c, "guard", s1[c].told)
    BY <1>1, <2>1, CallTells, CallGoes
  <2>5. GatewayCallInv(c)'
    BY <1>1, <1>3, <2>1, <2>3, <2>4 DEF CallMoves, GatewayCallInv, AnswerIsTrue, BeforeBatch
  <2> QED BY <1>1, <1>3, <2>3, <2>4, <2>5, OneCall DEF GatewayTypes
<1>5. ASSUME NEW t \in {"ok", "failed"}, Gateway!Tell(c, t),
             \E st \in {"success", "failed"} : Gateway!FinishLog(c, st),
             t = "ok" => s1[c].at = "invoke",
             s1[c].at \in {"setupfailed", "invoke", "guard", "preview"}
      PROVE  GatewayInv'
  <2>1. CallMoves(c, "done", t)
    BY <1>1, <1>5, CallTells
  <2>2. /\ s2' \in [Request -> GatewayRows] /\ s2'[c].proof = s2[c].proof
        /\ \A d \in Request \ {c} : s2'[d] = s2[d]
    BY <1>1, <1>5, LogFinishes
  <2>3. GatewayCallInv(c)'
    BY <1>1, <1>3, <1>5, <2>1, <2>2 DEF CallMoves, GatewayCallInv, AnswerIsTrue, BeforeBatch
  <2> QED BY <1>1, <1>3, <2>1, <2>2, <2>3, OneCall DEF GatewayTypes
<1>6. CASE Gateway!Invoke(c)
  <2>1. PICK ok \in BOOLEAN : /\ Gateway!FinishLog(c, IF ok THEN "success" ELSE "failed")
                              /\ Gateway!Tell(c, IF ok THEN "ok" ELSE "failed")
    BY <1>6 DEF Gateway!Invoke
  <2>2. s1[c].at = "invoke"
    BY <1>6 DEF Gateway!Invoke
  <2>3. CASE ok
    BY <1>5, <2>1, <2>2, <2>3
  <2>4. CASE ~ok
    BY <1>5, <2>1, <2>2, <2>4
  <2> QED BY <2>3, <2>4
<1>7. CASE Gateway!RepeatedFailure(c) \/ Gateway!PreviewFieldErrors(c) \/ Gateway!SetUpFailed(c)
  BY <1>5, <1>7 DEF Gateway!RepeatedFailure, Gateway!PreviewFieldErrors, Gateway!SetUpFailed
<1> QED BY <1>4, <1>6, <1>7

\* The batch and its proof are committed together.
LEMMA PreviewCommits == ASSUME GatewayInv, NEW c \in Request, Gateway!PreviewCommit(c) PROVE GatewayInv'
<1> DEFINE row == [s2[c] EXCEPT !.st = "success", !.proof = "preview"]
<1>1. /\ GatewayTypes /\ GatewayCallInv(c) /\ s1[c].at = "preview" /\ s2 \in [Request -> GatewayRows]
      /\ s5' = [s5 EXCEPT ![c] = "open"] /\ UNCHANGED <<s3, s4, s6, s7>>
      /\ Gateway!Goto(c, "previewed") \/ Gateway!Goto(c, "readback")
  BY DEF GatewayInv, GatewayTypes, Gateway!PreviewCommit, Gateway!At
<1>2. s2' = [s2 EXCEPT ![c] = row]
  BY <1>1 DEF Gateway!PreviewCommit
<1>3. row \in GatewayRows
  BY <1>1 DEF GatewayRows
<1> HIDE DEF row
<1>4. s2' \in [Request -> GatewayRows] /\ \A d \in Request \ {c} : s2'[d] = s2[d] /\ s5'[d] = s5[d]
  BY <1>1, <1>2, <1>3 DEF GatewayTypes
<1>5. s5' \in [Request -> {"none", "open", "expired"}] /\ s5'[c] = "open"
  BY <1>1 DEF GatewayTypes
<1>6. CallMoves(c, "previewed", s1[c].told) \/ CallMoves(c, "readback", s1[c].told)
  BY <1>1, CallGoes DEF GatewayPlaces
<1>7. GatewayCallInv(c)'
  BY <1>1, <1>5, <1>6 DEF CallMoves, GatewayCallInv, AnswerIsTrue, BeforeBatch
<1> QED BY <1>1, <1>4, <1>5, <1>6, <1>7, OneCall DEF GatewayTypes

\* A committed preview is read back.
LEMMA PreviewRead == ASSUME GatewayInv, NEW c \in Request, Gateway!ReadPreview(c) PROVE GatewayInv'
<1>1. /\ GatewayTypes /\ GatewayCallInv(c) /\ s1[c].at = "readback" /\ UNCHANGED <<s2, s3, s4, s5, s6, s7>>
      /\ \/ Gateway!Tell(c, "unknown")
         \/ Gateway!Tell(c, "ok") /\ s2[c].proof = "preview" /\ ~s1[c].go
  BY DEF GatewayInv, Gateway!ReadPreview, Gateway!At, Gateway!Unknown, Gateway!VerifiedPreview, Gateway!rows
<1>2. \/ CallMoves(c, "done", "unknown")
      \/ CallMoves(c, "done", "ok") /\ s2[c].proof = "preview" /\ ~s1[c].go
  BY <1>1, CallTells DEF GatewayAnswers
<1>3. GatewayCallInv(c)'
  BY <1>1, <1>2 DEF CallMoves, GatewayCallInv, AnswerIsTrue, BeforeBatch
<1> QED BY <1>1, <1>2, <1>3, QuietCall

\* The execute call of a preview, its row and its hand-off, and the set-up of a confirmation.
LEMMA HandOffStep ==
    ASSUME GatewayInv, NEW c \in Request,
           Gateway!StartChild(c) \/ Gateway!ChildGuard(c) \/ Gateway!HandOff(c) \/ Gateway!SetUp(c)
    PROVE  GatewayInv'
<1>1. /\ GatewayTypes /\ GatewayCallInv(c) /\ UNCHANGED <<s5, s6, s7>>
      /\ s2 \in [Request -> GatewayRows] /\ s3 \in [Request -> GatewayRows]
      /\ s4 \in [Request -> {"none", "pending", "running", "succeeded", "failed", "rejected", "expired"}]
  BY DEF GatewayInv, GatewayTypes, Gateway!StartChild, Gateway!ChildGuard, Gateway!HandOff, Gateway!SetUp
<1> USE DEF Gateway!At
<1>2. s3' \in [Request -> GatewayRows]
  <2>1. CASE Gateway!StartChild(c)
    BY <1>1, <2>1 DEF Gateway!StartChild, GatewayRows
  <2>2. CASE Gateway!ChildGuard(c)
    <3>1. PICK r \in Gateway!Finished(s3[c], "failed") : s3' = [s3 EXCEPT ![c] = r]
      BY <2>2 DEF Gateway!ChildGuard
    <3>2. r \in GatewayRows
      BY <1>1, <3>1, RowFinishes
    <3> QED BY <1>1, <3>1, <3>2
  <2>3. CASE Gateway!HandOff(c)
    BY <1>1, <2>3 DEF Gateway!HandOff, GatewayRows
  <2>4. CASE Gateway!SetUp(c)
    BY <1>1, <2>4 DEF Gateway!SetUp
  <2> QED BY <2>1, <2>2, <2>3, <2>4
<1>3. /\ s2' \in [Request -> GatewayRows] /\ s2'[c].proof = s2[c].proof
      /\ \A d \in Request \ {c} : s2'[d] = s2[d]
  <2>1. CASE s2' = s2
    BY <1>1, <2>1
  <2>2. CASE s2' = [s2 EXCEPT ![c].bound = TRUE]
    <3> DEFINE row == [s2[c] EXCEPT !.bound = TRUE]
    <3>1. row \in GatewayRows /\ row.proof = s2[c].proof
      BY <1>1 DEF GatewayRows
    <3>2. s2' = [s2 EXCEPT ![c] = row]
      BY <2>2
    <3> HIDE DEF row
    <3> QED BY <1>1, <3>1, <3>2
  <2> QED BY <2>1, <2>2 DEF Gateway!StartChild, Gateway!ChildGuard, Gateway!HandOff, Gateway!SetUp
<1>4. /\ s4' \in [Request -> {"none", "pending", "running", "succeeded", "failed", "rejected", "expired"}]
      /\ \A d \in Request \ {c} : s4'[d] = s4[d]
  <2>1. s4' = s4 \/ s4' = [s4 EXCEPT ![c] = "pending"]
    BY DEF Gateway!StartChild, Gateway!ChildGuard, Gateway!HandOff, Gateway!SetUp
  <2> QED BY <1>1, <2>1
<1>5. \/ s1[c].at # "done" /\ CallMoves(c, "done", "unknown")
      \/ s1[c].at = "childlog" /\ CallMoves(c, "handoff", s1[c].told)
      \/ s1[c].at = "handoff" /\ (CallMoves(c, "wait", s1[c].told) \/ CallMoves(c, "readhandoff", s1[c].told))
      \/ s1[c].at = "setup" /\ (CallMoves(c, "wait", s1[c].told) \/ CallMoves(c, "setupfailed", s1[c].told))
  BY <1>1, CallGoes, CallTells
     DEF Gateway!StartChild, Gateway!ChildGuard, Gateway!HandOff, Gateway!SetUp, Gateway!Unknown,
         GatewayPlaces, GatewayAnswers
<1>6. GatewayCallInv(c)'
  BY <1>1, <1>3, <1>5 DEF CallMoves, GatewayCallInv, AnswerIsTrue, BeforeBatch
<1> QED BY <1>1, <1>2, <1>3, <1>4, <1>5, <1>6, OneCall DEF GatewayTypes

\* A waiting call is answered with what became of its action.
LEMMA TerminalLoaded == ASSUME GatewayInv, NEW c \in Request, Gateway!LoadTerminal(c) PROVE GatewayInv'
<1>1. /\ GatewayTypes /\ GatewayCallInv(c) /\ UNCHANGED <<s2, s3, s4, s5, s6, s7>>
      /\ s1[c].at = "wait" /\ s4[c] \notin Gateway!Unfinished /\ Gateway!Tell(c, Gateway!Answer(c))
  BY DEF GatewayInv, Gateway!LoadTerminal, Gateway!At, Gateway!rows
<1>2. s4[c] \in {"succeeded", "failed", "rejected", "expired"}
  BY <1>1 DEF GatewayTypes, Gateway!Unfinished
<1>3. Gateway!Answer(c) \in GatewayAnswers
  BY DEF Gateway!Answer, GatewayAnswers
<1>4. CallMoves(c, "done", Gateway!Answer(c))
  BY <1>1, <1>3, CallTells
<1>5. GatewayCallInv(c)'
  BY <1>1, <1>2, <1>4 DEF CallMoves, GatewayCallInv, AnswerIsTrue, BeforeBatch, Gateway!Answer
<1> QED BY <1>1, <1>4, <1>5, QuietCall

\* A step that moves no call: rows keep their proofs, batches and ended actions stay.
LEMMA WorldMoves ==
    ASSUME GatewayInv, GatewayTypes', s1' = s1, 
           \A c \in Request : /\ s2'[c].proof = s2[c].proof
                              /\ (s5[c] # "none" => s5'[c] # "none") /\ (s5[c] = "none" => s5'[c] = "none")
                              /\ s4[c] \in {"succeeded", "rejected", "expired"} => s4'[c] = s4[c]
    PROVE  GatewayInv'
<1>1. ASSUME NEW c \in Request PROVE GatewayCallInv(c)'
  BY DEF GatewayInv, GatewayCallInv, AnswerIsTrue
<1> QED BY <1>1 DEF GatewayInv

\* The row of an action that ended keeps its proof.
LEMMA RowCloses ==
    ASSUME NEW row \in GatewayRows, NEW st \in {"succeeded", "failed", "rejected", "expired"}
    PROVE  Gateway!CloseRow(row, st) \in GatewayRows /\ Gateway!CloseRow(row, st).proof = row.proof
  BY DEF Gateway!CloseRow, GatewayRows

\* The confirmation protocol, the user, the clock and the deletion of the conversation.
LEMMA ConversationStep ==
    ASSUME GatewayInv,
           \/ \E c \in Request : Gateway!Claim(c) \/ Gateway!Settle(c) \/ Gateway!ExpireBatch(c)
           \/ Gateway!DeleteConversation \/ Gateway!SwitchAuthority \/ UNCHANGED Gateway!vars
    PROVE  GatewayInv'
<1>1. /\ GatewayTypes
      /\ s2 \in [Request -> GatewayRows] /\ s3 \in [Request -> GatewayRows]
      /\ s4 \in [Request -> {"none", "pending", "running", "succeeded", "failed", "rejected", "expired"}]
      /\ s5 \in [Request -> {"none", "open", "expired"}] /\ s6 \in BOOLEAN /\ s7 \in BOOLEAN
  BY DEF GatewayInv, GatewayTypes
<1>2. ASSUME NEW c \in Request, Gateway!Claim(c) PROVE GatewayInv'
  <2>1. /\ s4[c] = "pending" /\ s4' = [s4 EXCEPT ![c] = "running"] /\ UNCHANGED <<s1, s2, s3, s5, s6, s7>>
    BY <1>2 DEF Gateway!Claim
  <2>2. GatewayTypes'
    BY <1>1, <2>1 DEF GatewayTypes
  <2> QED BY <1>1, <2>1, <2>2, WorldMoves
<1>3. ASSUME NEW c \in Request, Gateway!Settle(c) PROVE GatewayInv'
  <2>1. PICK st \in {"succeeded", "failed", "rejected", "expired"} :
          /\ s4[c] \in {"pending", "running"}
          /\ s4' = [s4 EXCEPT ![c] = st]
          /\ s2' = [s2 EXCEPT ![c] = Gateway!CloseRow(s2[c], st)]
          /\ s3' = [s3 EXCEPT ![c] = Gateway!CloseRow(s3[c], st)]
    BY <1>1, <1>3 DEF Gateway!Settle
  <2>2. UNCHANGED <<s1, s5, s6, s7>>
    BY <1>3 DEF Gateway!Settle
  <2>3. /\ Gateway!CloseRow(s2[c], st) \in GatewayRows /\ Gateway!CloseRow(s2[c], st).proof = s2[c].proof
        /\ Gateway!CloseRow(s3[c], st) \in GatewayRows
    BY <1>1, RowCloses
  <2>4. GatewayTypes'
    BY <1>1, <2>1, <2>2, <2>3 DEF GatewayTypes
  <2>5. \A d \in Request : /\ s2'[d].proof = s2[d].proof
                           /\ s4[d] \in {"succeeded", "rejected", "expired"} => s4'[d] = s4[d]
    BY <1>1, <2>1, <2>3
  <2> QED BY <2>2, <2>4, <2>5, WorldMoves
<1>4. ASSUME NEW c \in Request, Gateway!ExpireBatch(c) PROVE GatewayInv'
  <2>1. s5[c] = "open" /\ s5' = [s5 EXCEPT ![c] = "expired"] /\ UNCHANGED <<s1, s2, s3, s4, s6, s7>>
    BY <1>4 DEF Gateway!ExpireBatch
  <2>2. GatewayTypes'
    BY <1>1, <2>1 DEF GatewayTypes
  <2> QED BY <1>1, <2>1, <2>2, WorldMoves
<1>5. CASE Gateway!DeleteConversation
  <2>1. /\ s4' = [c \in Request |-> IF s4[c] = "pending" THEN "expired" ELSE s4[c]]
        /\ s2' = [c \in Request |-> IF s4[c] = "pending" THEN Gateway!CloseRow(s2[c], "expired") ELSE s2[c]]
        /\ s3' = [c \in Request |-> IF s4[c] = "pending" THEN Gateway!CloseRow(s3[c], "expired") ELSE s3[c]]
        /\ s7' = TRUE /\ UNCHANGED <<s1, s5, s6>>
    BY <1>5 DEF Gateway!DeleteConversation
  <2>2. \A c \in Request :
          /\ Gateway!CloseRow(s2[c], "expired") \in GatewayRows
          /\ Gateway!CloseRow(s2[c], "expired").proof = s2[c].proof
          /\ Gateway!CloseRow(s3[c], "expired") \in GatewayRows
    BY <1>1, RowCloses
  <2>3. GatewayTypes'
    BY <1>1, <2>1, <2>2 DEF GatewayTypes
  <2>4. \A c \in Request : /\ s2'[c].proof = s2[c].proof
                           /\ s4[c] \in {"succeeded", "rejected", "expired"} => s4'[c] = s4[c]
    BY <1>1, <2>1, <2>2
  <2> QED BY <2>1, <2>3, <2>4, WorldMoves
<1>6. CASE Gateway!SwitchAuthority \/ UNCHANGED Gateway!vars
  <2>1. UNCHANGED <<s1, s2, s3, s4, s5, s7>> /\ s6' \in BOOLEAN
    BY <1>1, <1>6 DEF Gateway!SwitchAuthority, Gateway!vars, Gateway!rows
  <2>2. GatewayTypes'
    BY <1>1, <2>1 DEF GatewayTypes
  <2> QED BY <2>1, <2>2, WorldMoves
<1> QED BY <1>2, <1>3, <1>4, <1>5, <1>6

\* Every step keeps the invariant.
LEMMA GatewayStep == ASSUME GatewayInv, [Gateway!Next]_Gateway!vars PROVE GatewayInv'
  BY CallGoesOn, LogStep, PreviewCommits, PreviewRead, HandOffStep, TerminalLoaded, ConversationStep
     DEF Gateway!Next

\* No call has begun.
LEMMA GatewayStarts == Gateway!Init => GatewayInv
<1> SUFFICES ASSUME Gateway!Init PROVE GatewayInv
  OBVIOUS
<1>1. GatewayTypes
  BY DEF Gateway!Init, Gateway!NoLog, GatewayTypes, GatewayCalls, GatewayPlaces, GatewayAnswers, GatewayRows
<1>2. ASSUME NEW c \in Request PROVE GatewayCallInv(c)
  BY DEF Gateway!Init, Gateway!NoLog, GatewayCallInv, AnswerIsTrue, BeforeBatch
<1> QED BY <1>1, <1>2 DEF GatewayInv

\* In a deleted conversation no batch, no audit row and no action appears or moves.
LEMMA DeletedStays ==
    ASSUME GatewayInv, [Gateway!Next]_Gateway!vars, s7
    PROVE  /\ \A d \in Request : s5[d] = "none" => s5'[d] = "none"
           /\ s4' = s4
           /\ \A d \in Request : s2[d].st = "none" => s2'[d].st = "none"
<1>1. GatewayTypes
  BY DEF GatewayInv
<1>2. ASSUME NEW c \in Request,
             \/ Gateway!Begin(c) \/ Gateway!Refuse(c) \/ Gateway!Permit(c) \/ Gateway!Capacity(c)
             \/ Gateway!DryRun(c) \/ Gateway!PassGuard(c) \/ Gateway!PreviewFails(c) \/ Gateway!StartLog(c)
             \/ Gateway!PreviewCommitLost(c) \/ Gateway!PreviewEmitted(c) \/ Gateway!HandOffFails(c)
             \/ Gateway!ReadHandOff(c) \/ Gateway!SetUpFails(c) \/ Gateway!Crash(c) \/ Gateway!ReadPreview(c)
             \/ Gateway!StartChild(c) \/ Gateway!ChildGuard(c) \/ Gateway!LoadTerminal(c)
      PROVE  UNCHANGED <<s2, s4, s5>>
  BY <1>2 DEF Gateway!Begin, Gateway!Refuse, Gateway!Permit, Gateway!Capacity, Gateway!DryRun, Gateway!PassGuard,
         Gateway!PreviewFails, Gateway!StartLog, Gateway!PreviewCommitLost, Gateway!PreviewEmitted,
         Gateway!HandOffFails, Gateway!ReadHandOff, Gateway!SetUpFails, Gateway!Crash, Gateway!ReadPreview,
         Gateway!StartChild, Gateway!ChildGuard, Gateway!LoadTerminal, Gateway!rows, Gateway!SourceLive
<1>3. ASSUME NEW c \in Request,
             \/ Gateway!PreviewCommit(c) \/ Gateway!PreviewFieldErrors(c) \/ Gateway!HandOff(c)
             \/ Gateway!SetUp(c) \/ Gateway!Claim(c) \/ Gateway!Settle(c)
      PROVE  FALSE
  BY <1>3 DEF Gateway!PreviewCommit, Gateway!PreviewFieldErrors, Gateway!MayPreview, Gateway!HandOff,
              Gateway!MayHandOff, Gateway!SetUp, Gateway!Claim, Gateway!Settle, Gateway!SourceLive
<1>4. ASSUME NEW c \in Request, Gateway!RepeatedFailure(c) \/ Gateway!Invoke(c) \/ Gateway!SetUpFailed(c)
      PROVE  UNCHANGED <<s4, s5>> /\ \A d \in Request : s2[d].st = "none" => s2'[d].st = "none"
  <2>1. \E st \in {"success", "failed"} : Gateway!FinishLog(c, st)
    BY <1>4 DEF Gateway!RepeatedFailure, Gateway!Invoke, Gateway!SetUpFailed
  <2>2. UNCHANGED <<s4, s5>>
    BY <1>4 DEF Gateway!RepeatedFailure, Gateway!Invoke, Gateway!SetUpFailed
  <2> QED BY <1>1, <2>1, <2>2, LogFinishes
<1>5. ASSUME NEW c \in Request, Gateway!ExpireBatch(c)
      PROVE  UNCHANGED <<s2, s4>> /\ \A d \in Request : s5[d] = "none" => s5'[d] = "none"
  BY <1>1, <1>5 DEF Gateway!ExpireBatch, GatewayTypes
<1>6. ASSUME Gateway!DeleteConversation \/ Gateway!SwitchAuthority \/ UNCHANGED Gateway!vars
      PROVE  UNCHANGED <<s2, s4, s5>>
  BY <1>6 DEF Gateway!DeleteConversation, Gateway!SwitchAuthority, Gateway!vars, Gateway!rows
<1> QED BY <1>2, <1>3, <1>4, <1>5, <1>6 DEF Gateway!Next

\* Deletion closes the conversation's business, and the answer of an import preview is true of
\* what was committed: for any number of calls (gateway/executor.py, preview_execution.py,
\* preview_completion_service.py).
THEOREM AnswersAreTrue == Spec => GatewayHolds
<1>1. part = "gateway" /\ Init => GatewayInv
  BY GatewayStarts DEF Init
<1>2. part = "gateway" /\ [Next]_vars => [Gateway!Next]_Gateway!vars /\ (part = "gateway")'
  BY DEF Next, vars, from5, from7, Gateway!vars
<1>3. part = "gateway" /\ GatewayInv /\ [Next]_vars => GatewayInv' /\ (part = "gateway")'
  BY <1>2, GatewayStep
<1>4. (part = "gateway" => GatewayInv) => (part = "gateway" => Gateway!PreviewAnswerIsTrue)
  BY DEF GatewayInv, GatewayCallInv, AnswerIsTrue, Gateway!PreviewAnswerIsTrue
<1>5. (part = "gateway" => GatewayInv) /\ [Next]_vars => [part = "gateway" => Gateway!DeletedIsClosed]_vars
  BY <1>2, DeletedStays DEF Gateway!DeletedIsClosed
<1>6. ~(part = "gateway") /\ [Next]_vars => ~(part = "gateway")'
  BY PartStays
<1>7. GatewayHolds <=> /\ [](part = "gateway" => Gateway!PreviewAnswerIsTrue)
                       /\ [][part = "gateway" => Gateway!DeletedIsClosed]_vars
  BY DEF GatewayHolds
<1> QED BY <1>1, <1>3, <1>4, <1>5, <1>6, <1>7, PTL DEF Spec

-----------------------------------------------------------------------------
(* Model policies *)

PolicyRows == {"tenant"} \cup Model \cup Provider
PolicyWishes == {"off", "on", "default"}

PolicyTypes ==
    /\ s1 \in [Provider -> {"new", "on", "off", "gone"}]
    /\ s2 \in [Model -> {"new", "on", "off", "gone"}]
    /\ s3 \in [Model -> {"none", "off", "on", "default"}]
    /\ s4 = [r \in Request |-> s4[r]] /\ s5 = [r \in Request |-> s5[r]]
    /\ \A r \in Request : DOMAIN s4[r] = DOMAIN Policies!Idle
    /\ s6 \in 0..MaxPolicies

OneDefault(f) == \A m, n \in DOMAIN f : f[m] = "default" /\ f[n] = "default" => m = n

\* Who locks a row against everybody shares it with nobody.
Excluded ==
    \A r, q \in Request : \A row \in PolicyRows :
      r # q /\ <<row, "update">> \in s5[r] => \A k \in {"update", "share", "key"} : <<row, k>> \notin s5[q]

\* An administrator edits the models of the catalog he saw; they are not created again.
DraftInv(q) ==
    q.pc # "idle" /\ q.kind = "many" =>
      /\ DOMAIN q.seen \subseteq Model /\ q.want \in [DOMAIN q.seen -> PolicyWishes]
      /\ OneDefault(q.want) /\ \A m \in DOMAIN q.want : s2[m] # "new"

\* A request knows what it is about.
AboutInv(q) ==
    q.pc # "idle" =>
      /\ q.kind = "put" => q.on \in Model /\ q.want \in PolicyWishes
      /\ q.kind = "model" => q.on \in Model
      /\ q.kind = "provider" => q.on \in Provider

\* Whoever writes policies holds the tenant, and what he judged by.
WriterInv(r) ==
    LET q == s4[r] IN
    /\ q.pc \in {"tenant", "compare", "save", "put"} => <<"tenant", "update">> \in s5[r]
    /\ q.pc \in {"compare", "save"} =>
         /\ q.kind = "many"
         /\ \A m \in DOMAIN q.want :
              Policies!Here(m) => <<m, "share">> \in s5[r] /\ <<Home[m], "share">> \in s5[r]
    /\ q.pc = "save" =>
         /\ \A m \in Model : s3[m] # "none" => m \in DOMAIN q.want
         /\ \A m \in Model :
              Policies!Granted(m) = IF m \in DOMAIN q.seen THEN q.seen[m].grant ELSE "off"
         /\ \A m \in DOMAIN q.seen : Policies!Here(m) /\ q.seen[m].use = Policies!Usable(m)
         /\ \A m \in DOMAIN q.want :
              q.want[m] \in {"on", "default"} => Policies!Available(m) \/ s3[m] \in {"on", "default"}
    /\ q.pc = "put" => q.kind = "put" /\ <<q.on, "key">> \in s5[r] /\ Policies!Here(q.on)

\* A deletion holds what it will delete, and has seen that no policy names it.
EraserInv(r) ==
    LET q == s4[r] IN
    q.pc \in {"look", "erase"} =>
      /\ q.kind \in {"model", "provider"}
      /\ q.kind = "model" => s2[q.on] # "new"
      /\ q.kind = "provider" => <<q.on, "update">> \in s5[r]
      /\ \A m \in Policies!Doomed(r) : <<m, "update">> \in s5[r] /\ (q.pc = "erase" => s3[m] = "none")

PolicyInv ==
    /\ PolicyTypes /\ OneDefault(s3) /\ Excluded
    /\ \A m \in Model : s3[m] # "none" => Policies!Here(m)
    /\ \A r \in Request : DraftInv(s4[r]) /\ AboutInv(s4[r]) /\ WriterInv(r) /\ EraserInv(r)

\* A step leaves alone what a saved catalog says of the model, and what it may grant.
Settled(m) ==
    /\ Policies!Here(m) => Policies!Here(m)' /\ Policies!Usable(m)' = Policies!Usable(m)
    /\ Policies!Available(m) => Policies!Available(m)'

\* A request that does not move keeps its view when models only go, and what it holds stays.
LEMMA RequestStays ==
    ASSUME PolicyInv, NEW r \in Request, s4'[r] = s4[r], s5'[r] = s5[r],
           \A m \in Model : /\ s2[m] # "new" => s2'[m] # "new"
                            /\ s2[m] # "new" /\ Policies!Here(m)' => Policies!Here(m),
           s4[r].pc = "save" => s3' = s3 /\ \A m \in DOMAIN s4[r].want : Settled(m),
           s4[r].pc = "put" => Policies!Here(s4[r].on)',
           s4[r].pc \in {"look", "erase"} => Policies!Doomed(r)' \subseteq Policies!Doomed(r),
           s4[r].pc = "erase" => \A m \in Policies!Doomed(r) : s3'[m] = s3[m]
    PROVE  DraftInv(s4[r])' /\ AboutInv(s4[r])' /\ WriterInv(r)' /\ EraserInv(r)'
<1>1. DraftInv(s4[r]) /\ AboutInv(s4[r]) /\ WriterInv(r) /\ EraserInv(r)
  BY DEF PolicyInv
<1>2. s4[r].pc \in {"compare", "save"} => \A m \in DOMAIN s4[r].want : m \in Model /\ s2[m] # "new"
  BY <1>1 DEF DraftInv, WriterInv
<1>3. DraftInv(s4[r])'
  <2> SUFFICES ASSUME s4[r].pc # "idle", s4[r].kind = "many" PROVE DraftInv(s4[r])'
    BY DEF DraftInv
  <2>1. \A m \in DOMAIN s4[r].want : m \in Model /\ s2[m] # "new"
    BY <1>1 DEF DraftInv
  <2> QED BY <1>1, <2>1 DEF DraftInv
<1>4. AboutInv(s4[r])'
  BY <1>1 DEF AboutInv
<1>5. WriterInv(r)'
  <2>1. CASE s4[r].pc = "save"
    <3>1. DOMAIN s4[r].seen = DOMAIN s4[r].want /\ DOMAIN s4[r].seen \subseteq Model
      BY <1>1, <2>1 DEF WriterInv, DraftInv
    <3>2. \A m \in Model : Policies!Granted(m)' = Policies!Granted(m)
      BY <2>1 DEF Policies!Granted
    <3>3. \A m \in Model :
            Policies!Granted(m)' = IF m \in DOMAIN s4[r].seen THEN s4[r].seen[m].grant ELSE "off"
      BY <1>1, <2>1, <3>2 DEF WriterInv
    <3>4. \A m \in DOMAIN s4[r].seen :
            Policies!Here(m)' /\ s4[r].seen[m].use = Policies!Usable(m)'
      BY <1>1, <2>1, <3>1 DEF WriterInv, Settled
    <3>5. \A m \in DOMAIN s4[r].want :
            s4[r].want[m] \in {"on", "default"} => Policies!Available(m)' \/ s3'[m] \in {"on", "default"}
      BY <1>1, <2>1 DEF WriterInv, Settled
    <3>6. \A m \in DOMAIN s4[r].want :
            Policies!Here(m)' => <<m, "share">> \in s5[r] /\ <<Home[m], "share">> \in s5[r]
      BY <1>1, <1>2, <2>1 DEF WriterInv
    <3> QED BY <1>1, <2>1, <3>3, <3>4, <3>5, <3>6 DEF WriterInv
  <2>2. CASE s4[r].pc # "save"
    BY <1>1, <1>2, <2>2 DEF WriterInv
  <2> QED BY <2>1, <2>2
<1>6. EraserInv(r)'
  <2> SUFFICES ASSUME s4[r].pc \in {"look", "erase"} PROVE EraserInv(r)'
    BY DEF EraserInv
  <2>1. s4[r].kind = "model" => s2'[s4[r].on] # "new"
    BY <1>1 DEF EraserInv, AboutInv
  <2>2. \A m \in Policies!Doomed(r)' : <<m, "update">> \in s5[r] /\ (s4[r].pc = "erase" => s3'[m] = "none")
    BY <1>1 DEF EraserInv
  <2> QED BY <1>1, <2>1, <2>2 DEF EraserInv
<1> QED BY <1>3, <1>4, <1>5, <1>6

\* Releasing all rows.
LEMMA LocksReleased ==
    ASSUME PolicyTypes, Excluded, NEW r \in Request, s5' = [s5 EXCEPT ![r] = {}]
    PROVE  Excluded'
  BY DEF PolicyTypes, Excluded

\* Taking rows that are free leaves no row locked against itself.
LEMMA LocksTaken ==
    ASSUME PolicyTypes, Excluded, NEW r \in Request, NEW locks, s5' = [s5 EXCEPT ![r] = s5[r] \cup locks],
           \A l \in locks : /\ l = <<l[1], l[2]>> /\ l[2] \in {"update", "share", "key"}
                            /\ Policies!Free(r, l[1], l[2])
    PROVE  Excluded'
<1>1. /\ s5'[r] = s5[r] \cup locks /\ \A q \in Request \ {r} : s5'[q] = s5[q]
  BY DEF PolicyTypes
<1>2. ASSUME NEW row, NEW k \in {"update", "share", "key"}, NEW q \in Request \ {r}, <<row, k>> \in locks
      PROVE  /\ <<row, "update">> \notin s5[q]
             /\ (k = "update" => <<row, "share">> \notin s5[q] /\ <<row, "key">> \notin s5[q])
  <2>1. Policies!Free(r, row, k)
    BY <1>2
  <2>2. \A other \in Policies!Conflict[k] : <<row, other>> \notin s5[q]
    BY <2>1 DEF Policies!Free
  <2> QED BY <2>2 DEF Policies!Conflict
<1>3. ASSUME NEW p \in Request, NEW q \in Request, NEW row \in PolicyRows, p # q, <<row, "update">> \in s5'[p],
             NEW k \in {"update", "share", "key"}, <<row, k>> \in s5'[q]
      PROVE  FALSE
  <2>1. CASE p # r /\ q # r
    BY <1>1, <1>3, <2>1 DEF Excluded
  <2>2. CASE p = r
    <3>1. <<row, "update">> \in s5[p] \/ <<row, "update">> \in locks
      BY <1>1, <1>3, <2>2
    <3>2. <<row, k>> \in s5[q]
      BY <1>1, <1>3, <2>2
    <3> QED BY <1>2, <1>3, <2>2, <3>1, <3>2 DEF Excluded
  <2>3. CASE q = r
    <3>1. <<row, "update">> \in s5[p]
      BY <1>1, <1>3, <2>3
    <3>2. <<row, k>> \in s5[q] \/ <<row, k>> \in locks
      BY <1>1, <1>3, <2>3
    <3> QED BY <1>2, <1>3, <2>3, <3>1, <3>2 DEF Excluded
  <2> QED BY <2>1, <2>2, <2>3
<1> QED BY <1>3 DEF Excluded

\* A step of one request that changes no provider, no model and no policy.
LEMMA RequestMoves ==
    ASSUME PolicyInv, NEW r \in Request, NEW q, s4' = [s4 EXCEPT ![r] = q], UNCHANGED <<s1, s2, s3>>,
           DOMAIN q = DOMAIN Policies!Idle,
           s6' \in 0..MaxPolicies, s5' = [p \in Request |-> s5'[p]], Excluded',
           \A p \in Request \ {r} : s5'[p] = s5[p],
           DraftInv(q), AboutInv(q), WriterInv(r)', EraserInv(r)'
    PROVE  PolicyInv'
<1>1. PolicyTypes /\ s4'[r] = q /\ \A p \in Request \ {r} : s4'[p] = s4[p]
  BY DEF PolicyInv, PolicyTypes
<1>2. PolicyTypes'
  BY <1>1 DEF PolicyTypes
<1>3. \A m \in Model : Policies!Here(m)' <=> Policies!Here(m)
  BY DEF Policies!Here
<1>5. ASSUME NEW p \in Request, p # r
      PROVE  DraftInv(s4[p])' /\ AboutInv(s4[p])' /\ WriterInv(p)' /\ EraserInv(p)'
  <2>1. s4'[p] = s4[p] /\ s5'[p] = s5[p]
    BY <1>1, <1>5
  <2>2. Policies!Doomed(p)' = Policies!Doomed(p)
    BY <2>1 DEF Policies!Doomed, Policies!ModelsOf, Policies!Here
  <2>3. DraftInv(s4[p]) /\ AboutInv(s4[p]) /\ WriterInv(p)
    BY DEF PolicyInv
  <2>4. s4[p].pc = "save" => \A m \in DOMAIN s4[p].want : Settled(m)
    BY DEF Settled, Policies!Here, Policies!Usable, Policies!Available
  <2>5. s4[p].pc = "put" => s4[p].on \in Model /\ Policies!Here(s4[p].on)
    BY <2>3 DEF WriterInv, AboutInv
  <2> QED BY <1>3, <2>1, <2>2, <2>4, <2>5, RequestStays
<1>6. DraftInv(s4[r])' /\ AboutInv(s4[r])'
  BY <1>1 DEF DraftInv, AboutInv
<1>7. OneDefault(s3)' /\ \A m \in Model : s3'[m] # "none" => Policies!Here(m)'
  BY <1>3 DEF PolicyInv, OneDefault
<1> QED BY <1>2, <1>5, <1>6, <1>7 DEF PolicyInv

\* A request that ends.
LEMMA RequestEnds ==
    ASSUME PolicyInv, NEW r \in Request, Policies!End(r), UNCHANGED <<s1, s2, s3, s6>>
    PROVE  PolicyInv'
<1>1. s4' = [s4 EXCEPT ![r] = Policies!Idle] /\ s5' = [s5 EXCEPT ![r] = {}] /\ Policies!Idle.pc = "idle"
  BY DEF Policies!End, Policies!Idle
<1>2. PolicyTypes /\ Excluded
  BY DEF PolicyInv
<1>3. s4'[r] = Policies!Idle
  BY <1>1, <1>2 DEF PolicyTypes
<1>4. DraftInv(Policies!Idle) /\ AboutInv(Policies!Idle) /\ WriterInv(r)' /\ EraserInv(r)'
  BY <1>1, <1>3 DEF DraftInv, AboutInv, WriterInv, EraserInv
<1>5. s5' = [p \in Request |-> s5'[p]] /\ \A p \in Request \ {r} : s5'[p] = s5[p]
  BY <1>1, <1>2 DEF PolicyTypes
<1>6. Excluded' /\ s6' \in 0..MaxPolicies
  BY <1>1, <1>2, LocksReleased DEF PolicyTypes
<1> QED BY <1>1, <1>4, <1>5, <1>6, RequestMoves

\* A request that takes locks and goes on.
LEMMA RequestTakes ==
    ASSUME PolicyInv, NEW r \in Request, NEW locks, NEW pc, Policies!Take(r, locks, pc), s4[r].pc # "idle",
           \A l \in locks : l = <<l[1], l[2]>> /\ l[2] \in {"update", "share", "key"},
           WriterInv(r)', EraserInv(r)', pc # "idle"
    PROVE  PolicyInv'
<1> DEFINE q == [s4[r] EXCEPT !.pc = pc]
<1>1. /\ s4' = [s4 EXCEPT ![r].pc = pc] /\ s5' = [s5 EXCEPT ![r] = s5[r] \cup locks]
      /\ UNCHANGED <<s1, s2, s3, s6>> /\ \A l \in locks : Policies!Free(r, l[1], l[2])
  BY DEF Policies!Take
<1>2. PolicyTypes /\ Excluded /\ DraftInv(s4[r]) /\ AboutInv(s4[r])
  BY DEF PolicyInv
<1>3. s4' = [s4 EXCEPT ![r] = q]
  BY <1>1
<1>4. DraftInv(q) /\ AboutInv(q) /\ DOMAIN q = DOMAIN Policies!Idle
  BY <1>2 DEF DraftInv, AboutInv, PolicyTypes
<1>5. s5' = [p \in Request |-> s5'[p]] /\ \A p \in Request \ {r} : s5'[p] = s5[p]
  BY <1>1, <1>2 DEF PolicyTypes
<1>6. Excluded' /\ s6' \in 0..MaxPolicies
  BY <1>1, <1>2, LocksTaken DEF PolicyTypes
<1> HIDE DEF q
<1> QED BY <1>1, <1>3, <1>4, <1>5, <1>6, RequestMoves

\* A request arrives.
LEMMA RequestArrives ==
    ASSUME PolicyInv, NEW r \in Request, NEW kind, NEW on, NEW want, NEW seen,
           Policies!Begin(r, kind, on, want, seen),
           DraftInv([pc |-> "begin", kind |-> kind, on |-> on, want |-> want, seen |-> seen]),
           AboutInv([pc |-> "begin", kind |-> kind, on |-> on, want |-> want, seen |-> seen])
    PROVE  PolicyInv'
<1> DEFINE q == [pc |-> "begin", kind |-> kind, on |-> on, want |-> want, seen |-> seen]
<1>1. s4' = [s4 EXCEPT ![r] = q] /\ UNCHANGED <<s1, s2, s3, s5>> /\ s6 < MaxPolicies /\ s6' = s6 + 1
  BY DEF Policies!Begin
<1>2. PolicyTypes /\ Excluded
  BY DEF PolicyInv
<1>3. s4'[r].pc = "begin"
  BY <1>1, <1>2 DEF PolicyTypes
<1>4. WriterInv(r)' /\ EraserInv(r)'
  BY <1>3 DEF WriterInv, EraserInv
<1>5. s6' \in 0..MaxPolicies
  BY <1>1, <1>2, PolicyBounds DEF PolicyTypes
<1>6. Excluded' /\ s5' = [p \in Request |-> s5'[p]]
  BY <1>1, <1>2 DEF Excluded, PolicyTypes
<1> HIDE DEF q
<1>7. DraftInv(q) /\ AboutInv(q) /\ DOMAIN q = DOMAIN Policies!Idle
  BY DEF q, Policies!Idle
<1> QED BY <1>1, <1>4, <1>5, <1>6, <1>7, RequestMoves

\* Catalogs are loaded, single changes and deletions are asked for.
LEMMA AskStep ==
    ASSUME PolicyInv, NEW r \in Request, Policies!LoadCatalog(r) \/ Policies!AskPut(r) \/ Policies!AskDelete(r)
    PROVE  PolicyInv'
<1>1. CASE Policies!LoadCatalog(r)
  <2>1. PICK want \in [{m \in Model : Policies!Here(m)} -> PolicyWishes] :
          /\ \A m, n \in DOMAIN want : want[m] = "default" /\ want[n] = "default" => m = n
          /\ Policies!Begin(r, "many", "none", want, Policies!Catalog)
    BY <1>1 DEF Policies!LoadCatalog, PolicyWishes
  <2>3. DOMAIN Policies!Catalog = {m \in Model : Policies!Here(m)}
    BY DEF Policies!Catalog
  <2>4. \A m \in DOMAIN want : s2[m] # "new"
    BY <2>1 DEF Policies!Here
  <2> QED BY <2>1, <2>3, <2>4, RequestArrives DEF DraftInv, AboutInv, OneDefault
<1>2. CASE Policies!AskPut(r)
  <2>1. PICK m \in Model, state \in PolicyWishes : Policies!Begin(r, "put", m, state, Policies!NoCatalog)
    BY <1>2 DEF Policies!AskPut, PolicyWishes
  <2> QED BY <2>1, RequestArrives DEF DraftInv, AboutInv
<1>3. CASE Policies!AskDelete(r)
  <2>1. ASSUME NEW m \in Model, Policies!Begin(r, "model", m, <<>>, Policies!NoCatalog) PROVE PolicyInv'
    BY <2>1, RequestArrives DEF DraftInv, AboutInv
  <2>2. ASSUME NEW p \in Provider, Policies!Begin(r, "provider", p, <<>>, Policies!NoCatalog) PROVE PolicyInv'
    BY <2>2, RequestArrives DEF DraftInv, AboutInv
  <2> QED BY <1>3, <2>1, <2>2 DEF Policies!AskDelete
<1> QED BY <1>1, <1>2, <1>3

\* Locking: the tenant, the models of a catalog, one model, what is to be deleted.
LEMMA LockStep ==
    ASSUME PolicyInv, NEW r \in Request,
           \/ Policies!LockTenant(r) \/ Policies!ShareModels(r) \/ Policies!LockModel(r)
           \/ Policies!RefusePut(r) \/ Policies!LockDoomed(r)
    PROVE  PolicyInv'
<1> DEFINE q == s4[r]
<1>1. PolicyTypes /\ DraftInv(q) /\ AboutInv(q) /\ WriterInv(r)
  BY DEF PolicyInv
<1>2. ASSUME NEW locks, NEW pc, Policies!Take(r, locks, pc)
      PROVE  /\ s4'[r].pc = pc /\ s4'[r].kind = q.kind /\ s4'[r].on = q.on /\ s4'[r].want = q.want
             /\ s4'[r].seen = q.seen /\ s5'[r] = s5[r] \cup locks /\ UNCHANGED <<s1, s2, s3>>
  <2> DEFINE n == [q EXCEPT !.pc = pc]
  <2>1. s4' = [s4 EXCEPT ![r] = n] /\ s5'[r] = s5[r] \cup locks /\ UNCHANGED <<s1, s2, s3>>
    BY <1>1, <1>2 DEF Policies!Take, PolicyTypes
  <2>2. n.pc = pc /\ n.kind = q.kind /\ n.on = q.on /\ n.want = q.want /\ n.seen = q.seen
    BY <1>1 DEF PolicyTypes, Policies!Idle
  <2> HIDE DEF n
  <2>3. s4'[r] = n
    BY <1>1, <2>1 DEF PolicyTypes
  <2> QED BY <2>1, <2>2, <2>3
<1>3. CASE Policies!LockTenant(r)
  <2>1. q.pc = "begin" /\ Policies!Take(r, {<<"tenant", "update">>}, "tenant")
    BY <1>3 DEF Policies!LockTenant, Policies!TenantLock
  <2>2. WriterInv(r)' /\ EraserInv(r)'
    BY <1>2, <2>1 DEF WriterInv, EraserInv
  <2> QED BY <2>1, <2>2, RequestTakes
<1>4. CASE Policies!ShareModels(r)
  <2>1. q.pc = "tenant" /\ q.kind = "many" /\ Policies!Take(r, Policies!ModelLocks(r), "compare")
    BY <1>4 DEF Policies!ShareModels
  <2>2. \A l \in Policies!ModelLocks(r) : l = <<l[1], l[2]>> /\ l[2] \in {"update", "share", "key"}
    BY DEF Policies!ModelLocks
  <2>3. \A m \in Model : Policies!Here(m) =>
          <<m, "share">> \in Policies!ModelLocks(r) /\ <<Home[m], "share">> \in Policies!ModelLocks(r)
    BY DEF Policies!ModelLocks
  <2>4. \A m \in DOMAIN q.want : m \in Model
    BY <1>1, <2>1 DEF DraftInv
  <2>5. WriterInv(r)' /\ EraserInv(r)'
    BY <1>1, <1>2, <2>1, <2>3, <2>4 DEF WriterInv, EraserInv, Policies!Here
  <2> QED BY <2>1, <2>2, <2>5, RequestTakes
<1>5. CASE Policies!LockModel(r)
  <2>1. q.pc = "tenant" /\ q.kind = "put" /\ Policies!Here(q.on) /\ Policies!Take(r, {<<q.on, "key">>}, "put")
    BY <1>5 DEF Policies!LockModel
  <2>2. WriterInv(r)' /\ EraserInv(r)'
    BY <1>1, <1>2, <2>1 DEF WriterInv, EraserInv, Policies!Here
  <2> QED BY <2>1, <2>2, RequestTakes
<1>6. CASE Policies!RefusePut(r)
  BY <1>6, RequestEnds DEF Policies!RefusePut
<1>7. CASE Policies!LockDoomed(r)
  <2>1. CASE Policies!End(r) /\ UNCHANGED <<s1, s2, s3, s6>>
    BY <2>1, RequestEnds
  <2>2. CASE Policies!Exists(r) /\ Policies!Take(r, Policies!DeleteLocks(r), "look")
    <3>1. q.pc = "begin" /\ q.kind \in {"model", "provider"}
      BY <1>7 DEF Policies!LockDoomed
    <3>2. \A l \in Policies!DeleteLocks(r) : l = <<l[1], l[2]>> /\ l[2] \in {"update", "share", "key"}
      BY DEF Policies!DeleteLocks
    <3>3. /\ \A m \in Policies!Doomed(r) : <<m, "update">> \in Policies!DeleteLocks(r)
          /\ q.kind = "provider" => <<q.on, "update">> \in Policies!DeleteLocks(r)
      BY DEF Policies!DeleteLocks
    <3>4. Policies!Doomed(r)' = Policies!Doomed(r)
      BY <1>2, <2>2 DEF Policies!Doomed, Policies!ModelsOf, Policies!Here
    <3>5. q.kind = "model" => s2[q.on] # "new"
      BY <2>2 DEF Policies!Exists, Policies!Here
    <3>6. WriterInv(r)' /\ EraserInv(r)'
      BY <1>2, <2>2, <3>1, <3>3, <3>4, <3>5 DEF WriterInv, EraserInv
    <3> QED BY <2>2, <3>1, <3>2, <3>6, RequestTakes
  <2> QED BY <1>7, <2>1, <2>2 DEF Policies!LockDoomed
<1> QED BY <1>3, <1>4, <1>5, <1>6, <1>7

\* Comparing the catalog, and looking for policies of what is to be deleted.
LEMMA LookStep ==
    ASSUME PolicyInv, NEW r \in Request, Policies!Compare(r) \/ Policies!LookForPolicies(r)
    PROVE  PolicyInv'
<1> DEFINE q == s4[r]
<1>1. PolicyTypes /\ Excluded /\ DraftInv(q) /\ AboutInv(q) /\ WriterInv(r) /\ EraserInv(r)
  BY DEF PolicyInv
<1>2. UNCHANGED <<s1, s2, s3, s6>>
  BY DEF Policies!Compare, Policies!LookForPolicies
<1>3. ASSUME NEW pc, s4' = [s4 EXCEPT ![r].pc = pc], s5' = s5, q.pc # "idle", pc # "idle", WriterInv(r)', EraserInv(r)'
      PROVE  PolicyInv'
  <2> DEFINE n == [q EXCEPT !.pc = pc]
  <2>1. s4' = [s4 EXCEPT ![r] = n]
    BY <1>3
  <2>2. DraftInv(n) /\ AboutInv(n) /\ DOMAIN n = DOMAIN Policies!Idle
    BY <1>1, <1>3 DEF DraftInv, AboutInv, PolicyTypes
  <2>3. Excluded' /\ s5' = [p \in Request |-> s5'[p]] /\ s6' \in 0..MaxPolicies
    BY <1>1, <1>2, <1>3 DEF Excluded, PolicyTypes
  <2> HIDE DEF n
  <2> QED BY <1>2, <1>3, <2>1, <2>2, <2>3, RequestMoves
<1>6. ASSUME NEW pc, s4' = [s4 EXCEPT ![r].pc = pc]
      PROVE  /\ s4'[r].pc = pc /\ s4'[r].kind = q.kind /\ s4'[r].on = q.on /\ s4'[r].want = q.want
             /\ s4'[r].seen = q.seen
  <2> DEFINE n == [q EXCEPT !.pc = pc]
  <2>1. s4' = [s4 EXCEPT ![r] = n]
    BY <1>6
  <2>2. n.pc = pc /\ n.kind = q.kind /\ n.on = q.on /\ n.want = q.want /\ n.seen = q.seen
    BY <1>1 DEF PolicyTypes, Policies!Idle
  <2> HIDE DEF n
  <2>3. s4'[r] = n
    BY <1>1, <2>1 DEF PolicyTypes
  <2> QED BY <2>2, <2>3
<1>4. CASE Policies!Compare(r)
  <2>1. CASE Policies!End(r)
    BY <1>2, <2>1, RequestEnds
  <2>2. CASE /\ q.seen = Policies!Catalog /\ Policies!Grantable(q.want)
             /\ s4' = [s4 EXCEPT ![r].pc = "save"] /\ s5' = s5
    <3>1. q.pc = "compare" /\ q.kind = "many"
      BY <1>1, <1>4 DEF Policies!Compare, WriterInv
    <3>2. /\ DOMAIN q.seen = {m \in Model : Policies!Here(m)}
          /\ \A m \in DOMAIN q.seen : q.seen[m].use = Policies!Usable(m) /\ q.seen[m].grant = Policies!Granted(m)
      BY <2>2 DEF Policies!Catalog
    <3>3. DOMAIN q.want = {m \in Model : Policies!Here(m)}
      BY <1>1, <3>1, <3>2 DEF DraftInv
    <3>8. \A m \in Model : Policies!Granted(m) = IF m \in DOMAIN q.seen THEN q.seen[m].grant ELSE "off"
      BY <3>2 DEF PolicyInv, Policies!Granted
    <3>4. \A m \in Model : s3[m] # "none" => m \in DOMAIN q.want
      BY <3>3 DEF PolicyInv
    <3>5. \A m \in DOMAIN q.want :
            q.want[m] \in {"on", "default"} => Policies!Available(m) \/ s3[m] \in {"on", "default"}
      BY <2>2 DEF Policies!Grantable
    <3>6. /\ s4'[r].pc = "save" /\ s4'[r].kind = q.kind /\ s4'[r].on = q.on /\ s4'[r].want = q.want
          /\ s4'[r].seen = q.seen
      BY <1>6, <2>2
    <3>7. WriterInv(r)' /\ EraserInv(r)'
      BY <1>1, <1>2, <2>2, <3>1, <3>2, <3>4, <3>5, <3>6, <3>8
         DEF WriterInv, EraserInv, Policies!Here, Policies!Available, Policies!Usable, Policies!Granted
    <3> QED BY <1>3, <2>2, <3>1, <3>7
  <2> QED BY <1>4, <2>1, <2>2 DEF Policies!Compare
<1>5. CASE Policies!LookForPolicies(r)
  <2>1. CASE Policies!End(r)
    BY <1>2, <2>1, RequestEnds
  <2>2. CASE /\ \A m \in Policies!Doomed(r) : s3[m] = "none"
             /\ s4' = [s4 EXCEPT ![r].pc = "erase"] /\ s5' = s5
    <3>1. q.pc = "look"
      BY <1>5 DEF Policies!LookForPolicies
    <3>2. s4'[r].pc = "erase" /\ s4'[r].kind = q.kind /\ s4'[r].on = q.on
      BY <1>6, <2>2
    <3>3. Policies!Doomed(r)' = Policies!Doomed(r)
      BY <1>2, <3>2 DEF Policies!Doomed, Policies!ModelsOf, Policies!Here
    <3>4. WriterInv(r)' /\ EraserInv(r)'
      BY <1>1, <1>2, <2>2, <3>1, <3>2, <3>3 DEF WriterInv, EraserInv
    <3> QED BY <1>3, <2>2, <3>1, <3>4
  <2> QED BY <1>5, <2>1, <2>2 DEF Policies!LookForPolicies
<1> QED BY <1>4, <1>5

\* What a step of somebody else must leave to a request for its view to stay true.
ViewKept(q) ==
    /\ s4[q].pc = "save" => s3' = s3 /\ \A m \in DOMAIN s4[q].want : Settled(m)
    /\ s4[q].pc = "put" => Policies!Here(s4[q].on)'
    /\ s4[q].pc \in {"look", "erase"} => Policies!Doomed(q)' \subseteq Policies!Doomed(q)
    /\ s4[q].pc = "erase" => \A m \in Policies!Doomed(q) : s3'[m] = s3[m]

\* A step that changes providers, models or policies, and ends the requests in S.
LEMMA RowsChange ==
    ASSUME PolicyInv, NEW S \in SUBSET Request,
           s1' \in [Provider -> {"new", "on", "off", "gone"}],
           s2' \in [Model -> {"new", "on", "off", "gone"}],
           s3' \in [Model -> {"none", "off", "on", "default"}], s6' \in 0..MaxPolicies,
           s4' = [q \in Request |-> s4'[q]], s5' = [q \in Request |-> s5'[q]],
           \A q \in S : s4'[q] = Policies!Idle /\ s5'[q] = {},
           \A q \in Request \ S : s4'[q] = s4[q] /\ s5'[q] = s5[q] /\ ViewKept(q),
           OneDefault(s3)', \A m \in Model : s3'[m] # "none" => Policies!Here(m)',
           \A m \in Model : /\ s2[m] # "new" => s2'[m] # "new"
                            /\ s2[m] # "new" /\ Policies!Here(m)' => Policies!Here(m)
    PROVE  PolicyInv'
<1>1. PolicyTypes'
  <2>1. \A q \in Request : DOMAIN s4'[q] = DOMAIN Policies!Idle
    BY DEF PolicyInv, PolicyTypes
  <2>2. Policies!Idle' = Policies!Idle
    BY DEF Policies!Idle, Policies!NoCatalog
  <2> QED BY <2>1, <2>2 DEF PolicyTypes
<1>2. Excluded'
  BY DEF PolicyInv, Excluded
<1>3. ASSUME NEW q \in Request
      PROVE  DraftInv(s4[q])' /\ AboutInv(s4[q])' /\ WriterInv(q)' /\ EraserInv(q)'
  <2>1. CASE q \in S
    <3>1. s4'[q].pc = "idle"
      BY <2>1 DEF Policies!Idle
    <3> QED BY <3>1 DEF DraftInv, AboutInv, WriterInv, EraserInv
  <2>2. CASE q \notin S
    BY <2>2, RequestStays DEF ViewKept
  <2> QED BY <2>1, <2>2
<1> QED BY <1>1, <1>2, <1>3 DEF PolicyInv

\* Two requests never hold the tenant, or a row one of them locks against everybody.
LEMMA Alone ==
    ASSUME PolicyInv, NEW r \in Request, NEW q \in Request, r # q, NEW row \in PolicyRows,
           <<row, "update">> \in s5[r], NEW k \in {"update", "share", "key"}, <<row, k>> \in s5[q]
    PROVE  FALSE
  BY DEF PolicyInv, Excluded

\* While one request writes policies, no other is about to.
LEMMA OneWriter ==
    ASSUME PolicyInv, NEW r \in Request, NEW q \in Request, r # q,
           s4[r].pc \in {"save", "put"}, s4[q].pc \in {"save", "put"}
    PROVE  FALSE
<1>1. <<"tenant", "update">> \in s5[r] /\ <<"tenant", "update">> \in s5[q]
  BY DEF PolicyInv, WriterInv
<1> QED BY <1>1, Alone DEF PolicyRows

\* The end of a request, in the form RowsChange asks for.
LEMMA RequestsEnd ==
    ASSUME PolicyInv, NEW r \in Request, Policies!End(r)
    PROVE  /\ s4' = [q \in Request |-> s4'[q]] /\ s5' = [q \in Request |-> s5'[q]]
           /\ \A q \in {r} : s4'[q] = Policies!Idle /\ s5'[q] = {}
           /\ \A q \in Request \ {r} : s4'[q] = s4[q] /\ s5'[q] = s5[q]
<1> DEFINE n == Policies!Idle
<1>1. s4' = [s4 EXCEPT ![r] = n] /\ s5' = [s5 EXCEPT ![r] = {}] /\ PolicyTypes
  BY DEF Policies!End, PolicyInv
<1> HIDE DEF n
<1>2. \A q \in {r} : s4'[q] = n /\ s5'[q] = {}
  BY <1>1 DEF PolicyTypes
<1>3. \A q \in Request \ {r} : s4'[q] = s4[q] /\ s5'[q] = s5[q]
  BY <1>1 DEF PolicyTypes
<1>4. s4' = [q \in Request |-> s4'[q]] /\ s5' = [q \in Request |-> s5'[q]]
  BY <1>1 DEF PolicyTypes
<1> QED BY <1>2, <1>3, <1>4 DEF n

\* The whole catalog is saved.
LEMMA CatalogStep ==
    ASSUME PolicyInv, NEW r \in Request, Policies!SaveMany(r)
    PROVE  PolicyInv'
<1> DEFINE want == s4[r].want
<1>1. /\ s4[r].pc = "save" /\ \A m \in DOMAIN want : Policies!Here(m)
      /\ s3' = Policies!Replaced(want) /\ Policies!End(r) /\ UNCHANGED <<s1, s2, s6>>
  BY DEF Policies!SaveMany
<1>2. /\ PolicyTypes /\ WriterInv(r) /\ DraftInv(s4[r])
  BY DEF PolicyInv
<1>3. /\ \A m \in DOMAIN want : m \in Model /\ want[m] \in PolicyWishes
      /\ OneDefault(want)
      /\ \A m \in Model : s3[m] # "none" => m \in DOMAIN want
      /\ \A m \in DOMAIN want : <<m, "share">> \in s5[r]
  BY <1>1, <1>2 DEF WriterInv, DraftInv
<1>4. \A m \in Model : s3'[m] = IF m \notin DOMAIN want \/ (s3[m] = "none" /\ want[m] = "off") THEN s3[m]
                                ELSE want[m]
  BY <1>1 DEF Policies!Replaced
<1>5. s3' \in [Model -> {"none", "off", "on", "default"}]
  <2>1. s3' = [m \in Model |-> s3'[m]]
    BY <1>1 DEF Policies!Replaced
  <2>2. \A m \in Model : s3'[m] \in {"none", "off", "on", "default"}
    BY <1>2, <1>3, <1>4 DEF PolicyTypes, PolicyWishes
  <2> QED BY <2>1, <2>2
<1>6. OneDefault(s3)'
  <2>1. \A m \in Model : s3'[m] = "default" => m \in DOMAIN want /\ want[m] = "default"
    BY <1>3, <1>4
  <2>2. DOMAIN s3' = Model
    BY <1>5
  <2> QED BY <1>3, <2>1, <2>2 DEF OneDefault
<1>7. \A m \in Model : s3'[m] # "none" => Policies!Here(m)'
  BY <1>1, <1>3, <1>4 DEF Policies!Here
<1>8. ASSUME NEW q \in Request \ {r} PROVE ViewKept(q)
  <2>1. s4[q].pc \notin {"save", "put"}
    BY <1>1, OneWriter
  <2>2. s4'[q] = s4[q]
    BY <1>1, RequestsEnd
  <2>3. Policies!Doomed(q)' = Policies!Doomed(q)
    BY <1>1, <2>2 DEF Policies!Doomed, Policies!ModelsOf, Policies!Here
  <2>4. ASSUME s4[q].pc = "erase", NEW m \in Policies!Doomed(q) PROVE s3'[m] = s3[m]
    <3>1. m \in Model /\ <<m, "update">> \in s5[q]
      BY <2>4 DEF PolicyInv, EraserInv, Policies!Doomed, Policies!ModelsOf
    <3>2. m \notin DOMAIN want
      BY <1>3, <3>1, Alone DEF PolicyRows
    <3> QED BY <1>4, <3>1, <3>2
  <2> QED BY <2>1, <2>3, <2>4 DEF ViewKept
<1>9. s1' \in [Provider -> {"new", "on", "off", "gone"}] /\ s2' \in [Model -> {"new", "on", "off", "gone"}]
      /\ s6' \in 0..MaxPolicies
  BY <1>1, <1>2 DEF PolicyTypes
<1>10. \A m \in Model : Policies!Here(m)' => Policies!Here(m)
  BY <1>1 DEF Policies!Here
<1>11. \A m \in Model : s2[m] # "new" => s2'[m] # "new"
  BY <1>1
<1>12. QED
  <2> DEFINE S == {r}
  <2>1. S \in SUBSET Request
    OBVIOUS
  <2>2. /\ s4' = [q \in Request |-> s4'[q]] /\ s5' = [q \in Request |-> s5'[q]]
        /\ \A q \in S : s4'[q] = Policies!Idle /\ s5'[q] = {}
        /\ \A q \in Request \ S : s4'[q] = s4[q] /\ s5'[q] = s5[q] /\ ViewKept(q)
    BY <1>1, <1>8, RequestsEnd
  <2> HIDE DEF S, want
  <2> QED BY <1>5, <1>6, <1>7, <1>9, <1>10, <1>11, <2>1, <2>2, RowsChange

\* One policy is saved; another default becomes an ordinary policy.
LEMMA PutStep ==
    ASSUME PolicyInv, NEW r \in Request, Policies!Put(r)
    PROVE  PolicyInv'
<1> DEFINE want == s4[r].want
           on == s4[r].on
<1>1. /\ s4[r].pc = "put" /\ Policies!End(r) /\ UNCHANGED <<s1, s2, s6>>
      /\ s3' = [n \in Model |-> IF n = on THEN want
                                ELSE IF want = "default" /\ s3[n] = "default" THEN "on" ELSE s3[n]]
  BY DEF Policies!Put
<1>2. PolicyTypes /\ WriterInv(r) /\ AboutInv(s4[r])
  BY DEF PolicyInv
<1>3. on \in Model /\ want \in PolicyWishes /\ <<on, "key">> \in s5[r] /\ Policies!Here(on)
  BY <1>1, <1>2 DEF WriterInv, AboutInv
<1> HIDE DEF want, on
<1>4. s3' \in [Model -> {"none", "off", "on", "default"}]
  BY <1>1, <1>2, <1>3 DEF PolicyTypes, PolicyWishes
<1>5. OneDefault(s3)'
  BY <1>1, <1>2, <1>3 DEF PolicyInv, OneDefault, PolicyTypes, PolicyWishes
<1>6. \A m \in Model : s3'[m] # "none" => Policies!Here(m)'
  BY <1>1, <1>3 DEF PolicyInv, Policies!Here
<1>7. ASSUME NEW q \in Request \ {r} PROVE ViewKept(q)
  <2>1. s4[q].pc \notin {"save", "put"}
    BY <1>1, OneWriter
  <2>2. s4'[q] = s4[q]
    BY <1>1, RequestsEnd
  <2>3. Policies!Doomed(q)' = Policies!Doomed(q)
    BY <1>1, <2>2 DEF Policies!Doomed, Policies!ModelsOf, Policies!Here
  <2>4. ASSUME s4[q].pc = "erase", NEW m \in Policies!Doomed(q) PROVE s3'[m] = s3[m]
    <3>1. m \in Model /\ <<m, "update">> \in s5[q] /\ s3[m] = "none"
      BY <2>4 DEF PolicyInv, EraserInv, Policies!Doomed, Policies!ModelsOf
    <3>2. m # on
      BY <1>3, <3>1, Alone DEF PolicyRows
    <3> QED BY <1>1, <3>1, <3>2
  <2> QED BY <2>1, <2>3, <2>4 DEF ViewKept
<1>8. s1' \in [Provider -> {"new", "on", "off", "gone"}] /\ s2' \in [Model -> {"new", "on", "off", "gone"}]
      /\ s6' \in 0..MaxPolicies
  BY <1>1, <1>2 DEF PolicyTypes
<1>9. \A m \in Model : Policies!Here(m)' => Policies!Here(m)
  BY <1>1 DEF Policies!Here
<1>10. \A m \in Model : s2[m] # "new" => s2'[m] # "new"
  BY <1>1
<1>11. QED
  <2> DEFINE S == {r}
  <2>1. S \in SUBSET Request
    OBVIOUS
  <2>2. /\ s4' = [q \in Request |-> s4'[q]] /\ s5' = [q \in Request |-> s5'[q]]
        /\ \A q \in S : s4'[q] = Policies!Idle /\ s5'[q] = {}
        /\ \A q \in Request \ S : s4'[q] = s4[q] /\ s5'[q] = s5[q] /\ ViewKept(q)
    BY <1>1, <1>7, RequestsEnd
  <2> HIDE DEF S
  <2> QED BY <1>4, <1>5, <1>6, <1>8, <1>9, <1>10, <2>1, <2>2, RowsChange

\* A deletion takes no policy along: none of the rows it deletes is named by one.
LEMMA ErasedUnnamed ==
    ASSUME PolicyInv, NEW r \in Request, Policies!Erase(r)
    PROVE  s3' = s3 /\ \A m \in Policies!Doomed(r) : s3[m] = "none"
<1>1. s4[r].pc = "erase" /\ s3' = [m \in Model |-> IF m \in Policies!Doomed(r) THEN "none" ELSE s3[m]]
  BY DEF Policies!Erase
<1>2. \A m \in Policies!Doomed(r) : s3[m] = "none"
  BY <1>1 DEF PolicyInv, EraserInv
<1> QED BY <1>1, <1>2 DEF PolicyInv, PolicyTypes

\* Providers and models are deleted, with whatever the keys take along.
LEMMA EraseStep ==
    ASSUME PolicyInv, NEW r \in Request, Policies!Erase(r)
    PROVE  PolicyInv'
<1> DEFINE D == Policies!Doomed(r)
<1>1. /\ s4[r].pc = "erase" /\ Policies!End(r) /\ s6' = s6
      /\ s2' = [m \in Model |-> IF m \in D THEN "gone" ELSE s2[m]]
      /\ s1' = IF s4[r].kind = "provider" THEN [s1 EXCEPT ![s4[r].on] = "gone"] ELSE s1
  BY DEF Policies!Erase
<1>2. PolicyTypes /\ EraserInv(r) /\ AboutInv(s4[r])
  BY DEF PolicyInv
<1>3. s3' = s3 /\ \A m \in D : s3[m] = "none"
  BY ErasedUnnamed
<1>4. /\ \A m \in D : m \in Model /\ <<m, "update">> \in s5[r]
      /\ s4[r].kind = "provider" => s4[r].on \in Provider /\ <<s4[r].on, "update">> \in s5[r]
  BY <1>1, <1>2 DEF EraserInv, AboutInv, Policies!Doomed, Policies!ModelsOf
<1> HIDE DEF D
<1>5. \A m \in Model : /\ Policies!Here(m)' <=> Policies!Here(m) /\ m \notin D
                       /\ s2[m] # "new" => s2'[m] # "new"
  BY <1>1, <1>2 DEF Policies!Here, PolicyTypes
<1>6. s1' \in [Provider -> {"new", "on", "off", "gone"}] /\ s2' \in [Model -> {"new", "on", "off", "gone"}]
      /\ s3' \in [Model -> {"none", "off", "on", "default"}] /\ s6' \in 0..MaxPolicies
  BY <1>1, <1>2, <1>3 DEF PolicyTypes
<1>7. OneDefault(s3)' /\ \A m \in Model : s3'[m] # "none" => Policies!Here(m)'
  BY <1>3, <1>5 DEF PolicyInv, OneDefault
<1>8. ASSUME NEW q \in Request \ {r} PROVE ViewKept(q)
  <2>1. DraftInv(s4[q]) /\ AboutInv(s4[q]) /\ WriterInv(q)
    BY DEF PolicyInv
  <2>2. ASSUME s4[q].pc = "save", NEW m \in DOMAIN s4[q].want PROVE Settled(m)
    <3>1. m \in Model /\ Home[m] \in Provider /\ Policies!Here(m)
      BY <2>1, <2>2, PolicyBounds DEF DraftInv, WriterInv
    <3>2. <<m, "share">> \in s5[q] /\ <<Home[m], "share">> \in s5[q]
      BY <2>1, <2>2, <3>1 DEF WriterInv
    <3>3. m \notin D
      BY <1>4, <3>1, <3>2, Alone DEF PolicyRows
    <3>4. s4[r].kind = "provider" => s4[r].on # Home[m]
      BY <1>4, <3>1, <3>2, Alone DEF PolicyRows
    <3>5. s2'[m] = s2[m]
      BY <1>1, <3>1, <3>3
    <3>6. s1'[Home[m]] = s1[Home[m]]
      BY <1>1, <1>2, <1>4, <3>1, <3>4 DEF PolicyTypes
    <3> QED BY <3>5, <3>6 DEF Settled, Policies!Here, Policies!Usable, Policies!Available
  <2>3. ASSUME s4[q].pc = "put" PROVE Policies!Here(s4[q].on)'
    <3>1. s4[q].on \in Model /\ <<s4[q].on, "key">> \in s5[q] /\ Policies!Here(s4[q].on)
      BY <2>1, <2>3 DEF WriterInv, AboutInv
    <3>2. s4[q].on \notin D
      BY <1>4, <3>1, Alone DEF PolicyRows
    <3>3. s2'[s4[q].on] = s2[s4[q].on]
      BY <1>1, <3>1, <3>2
    <3>4. s4'[q] = s4[q]
      BY <1>1, RequestsEnd
    <3> QED BY <3>1, <3>3, <3>4 DEF Policies!Here
  <2>4. s4'[q] = s4[q]
    BY <1>1, RequestsEnd
  <2>5. Policies!Doomed(q)' \subseteq Policies!Doomed(q)
    BY <1>5, <2>4 DEF Policies!Doomed, Policies!ModelsOf
  <2> QED BY <1>3, <2>2, <2>3, <2>5 DEF ViewKept
<1>9. QED
  <2> DEFINE S == {r}
  <2>1. S \in SUBSET Request
    OBVIOUS
  <2>2. /\ s4' = [q \in Request |-> s4'[q]] /\ s5' = [q \in Request |-> s5'[q]]
        /\ \A q \in S : s4'[q] = Policies!Idle /\ s5'[q] = {}
        /\ \A q \in Request \ S : s4'[q] = s4[q] /\ s5'[q] = s5[q] /\ ViewKept(q)
    BY <1>1, <1>8, RequestsEnd
  <2> HIDE DEF S
  <2> QED BY <1>5, <1>6, <1>7, <2>1, <2>2, RowsChange

\* A step that ends nobody.
LEMMA RowsEdited ==
    ASSUME PolicyInv, UNCHANGED <<s4, s5>>, s6' \in 0..MaxPolicies, OneDefault(s3)',
           s1' \in [Provider -> {"new", "on", "off", "gone"}],
           s2' \in [Model -> {"new", "on", "off", "gone"}],
           s3' \in [Model -> {"none", "off", "on", "default"}],
           \A q \in Request : ViewKept(q), \A m \in Model : s3'[m] # "none" => Policies!Here(m)',
           \A m \in Model : /\ s2[m] # "new" => s2'[m] # "new"
                            /\ s2[m] # "new" /\ Policies!Here(m)' => Policies!Here(m)
    PROVE  PolicyInv'
<1> DEFINE S == {}
<1>1. S \in SUBSET Request /\ Request \ S = Request
  OBVIOUS
<1>2. s4' = [q \in Request |-> s4'[q]] /\ s5' = [q \in Request |-> s5'[q]]
  BY DEF PolicyInv, PolicyTypes
<1>3. /\ \A q \in S : s4'[q] = Policies!Idle /\ s5'[q] = {}
      /\ \A q \in Request \ S : s4'[q] = s4[q] /\ s5'[q] = s5[q] /\ ViewKept(q)
  BY <1>1
<1> HIDE DEF S
<1> QED BY <1>1, <1>2, <1>3, RowsChange

\* One policy is deleted, by somebody who finds the tenant free.
LEMMA DropStep ==
    ASSUME PolicyInv, NEW m \in Model, Policies!DropPolicy(m)
    PROVE  PolicyInv'
<1>1. /\ s6 < MaxPolicies /\ s6' = s6 + 1 /\ s3' = [s3 EXCEPT ![m] = "none"] /\ UNCHANGED <<s1, s2, s4, s5>>
      /\ \A q \in Request : <<"tenant", "update">> \notin s5[q]
  BY DEF Policies!DropPolicy
<1>2. PolicyTypes
  BY DEF PolicyInv
<1>3. ASSUME NEW q \in Request PROVE ViewKept(q)
  <2>1. s4[q].pc \notin {"save", "put"}
    BY <1>1 DEF PolicyInv, WriterInv
  <2>2. Policies!Doomed(q)' = Policies!Doomed(q)
    BY <1>1 DEF Policies!Doomed, Policies!ModelsOf, Policies!Here
  <2>3. ASSUME s4[q].pc = "erase", NEW n \in Policies!Doomed(q) PROVE s3'[n] = s3[n]
    <3>1. n \in Model /\ s3[n] = "none"
      BY <2>3 DEF PolicyInv, EraserInv, Policies!Doomed, Policies!ModelsOf
    <3> QED BY <1>1, <1>2, <3>1 DEF PolicyTypes
  <2> QED BY <2>1, <2>2, <2>3 DEF ViewKept
<1>4. s6' \in 0..MaxPolicies
  BY <1>1, <1>2, PolicyBounds DEF PolicyTypes
<1>5. OneDefault(s3)' /\ s3' \in [Model -> {"none", "off", "on", "default"}]
  BY <1>1, <1>2 DEF PolicyInv, OneDefault, PolicyTypes
<1>6. \A n \in Model : s3'[n] # "none" => Policies!Here(n)'
  BY <1>1, <1>2 DEF PolicyInv, PolicyTypes, Policies!Here
<1>7. \A n \in Model : /\ s2[n] # "new" => s2'[n] # "new"
                       /\ s2[n] # "new" /\ Policies!Here(n)' => Policies!Here(n)
  BY <1>1 DEF Policies!Here
<1>8. s1' \in [Provider -> {"new", "on", "off", "gone"}] /\ s2' \in [Model -> {"new", "on", "off", "gone"}]
  BY <1>1, <1>2 DEF PolicyTypes
<1> QED BY <1>1, <1>3, <1>4, <1>5, <1>6, <1>7, <1>8, RowsEdited

\* Providers and models are switched on and off, and created.
LEMMA EditStep ==
    ASSUME PolicyInv, NEW m \in Model, NEW p \in Provider,
           \/ Policies!UpdateModel(m) \/ Policies!CreateModel(m)
           \/ Policies!UpdateProvider(p) \/ Policies!CreateProvider(p)
    PROVE  PolicyInv'
<1>1. s6 < MaxPolicies /\ s6' = s6 + 1 /\ UNCHANGED <<s3, s4, s5>>
  BY DEF Policies!UpdateModel, Policies!CreateModel, Policies!UpdateProvider, Policies!CreateProvider,
         Policies!Edited
<1>2. PolicyTypes /\ OneDefault(s3)'
  BY <1>1 DEF PolicyInv, OneDefault
<1>3. s6' \in 0..MaxPolicies /\ s3' \in [Model -> {"none", "off", "on", "default"}]
  BY <1>1, <1>2, PolicyBounds DEF PolicyTypes
<1>4. s1' \in [Provider -> {"new", "on", "off", "gone"}] /\ s2' \in [Model -> {"new", "on", "off", "gone"}]
  BY <1>2 DEF PolicyTypes, Policies!UpdateModel, Policies!CreateModel, Policies!UpdateProvider,
              Policies!CreateProvider
<1>5. \A n \in Model : /\ s2[n] # "new" => s2'[n] # "new"
                       /\ s2[n] # "new" /\ Policies!Here(n)' => Policies!Here(n)
                       /\ Policies!Here(n) => Policies!Here(n)'
  BY <1>2 DEF PolicyTypes, Policies!UpdateModel, Policies!CreateModel, Policies!UpdateProvider,
              Policies!CreateProvider, Policies!Here
<1>6. \A n \in Model : s3'[n] # "none" => Policies!Here(n)'
  BY <1>1, <1>5 DEF PolicyInv
<1>7. ASSUME NEW q \in Request, s4[q].pc = "save", NEW n \in DOMAIN s4[q].want PROVE Settled(n)
  <2>1. n \in Model /\ Home[n] \in Provider /\ Policies!Here(n)
    BY <1>7, PolicyBounds DEF PolicyInv, DraftInv, WriterInv
  <2>2. <<n, "share">> \in s5[q] /\ <<Home[n], "share">> \in s5[q]
    BY <1>7, <2>1 DEF PolicyInv, WriterInv
  <2>3. ~Policies!Writable(n) /\ ~Policies!Writable(Home[n])
    BY <2>2 DEF Policies!Writable
  <2>4. s2'[n] = s2[n]
    BY <1>2, <2>1, <2>3 DEF PolicyTypes, Policies!Here, Policies!UpdateModel, Policies!CreateModel,
                            Policies!UpdateProvider, Policies!CreateProvider
  <2>5. s1'[Home[n]] = s1[Home[n]] \/ (s1[Home[n]] = "new" /\ s1'[Home[n]] = "on")
    BY <1>2, <2>1, <2>3 DEF PolicyTypes, Policies!UpdateModel, Policies!CreateModel,
                            Policies!UpdateProvider, Policies!CreateProvider
  <2> QED BY <2>4, <2>5 DEF Settled, Policies!Here, Policies!Usable, Policies!Available
<1>8. ASSUME NEW q \in Request, s4[q].pc \in {"look", "erase"}
      PROVE  Policies!Doomed(q)' \subseteq Policies!Doomed(q)
  <2>1. EraserInv(q) /\ AboutInv(s4[q]) /\ s4'[q] = s4[q]
    BY <1>1 DEF PolicyInv
  <2>2. CASE Policies!CreateModel(m)
    <3>1. /\ s2[m] = "new" /\ s2' = [s2 EXCEPT ![m] = "on"]
          /\ <<Home[m], "update">> \notin s5[q]
      BY <2>2 DEF Policies!CreateModel
    <3>2. s4[q].kind = "model" => s4[q].on # m
      BY <1>8, <2>1, <3>1 DEF EraserInv
    <3>3. s4[q].kind = "provider" => s4[q].on # Home[m]
      BY <1>8, <2>1, <3>1 DEF EraserInv
    <3>4. \A n \in Model : n # m => s2'[n] = s2[n]
      BY <1>2, <3>1 DEF PolicyTypes
    <3> QED BY <1>8, <2>1, <3>2, <3>3, <3>4
               DEF EraserInv, Policies!Doomed, Policies!ModelsOf, Policies!Here
  <2>3. CASE ~Policies!CreateModel(m)
    <3>1. \A n \in Model : Policies!Here(n)' => Policies!Here(n)
      BY <1>2, <2>3 DEF PolicyTypes, Policies!Here, Policies!UpdateModel, Policies!UpdateProvider,
                        Policies!CreateProvider
    <3> QED BY <2>1, <3>1 DEF Policies!Doomed, Policies!ModelsOf
  <2> QED BY <2>2, <2>3
<1>9. ASSUME NEW q \in Request, s4[q].pc = "put" PROVE Policies!Here(s4[q].on)'
  <2>1. s4[q].on \in Model /\ Policies!Here(s4[q].on) /\ s4'[q] = s4[q]
    BY <1>1, <1>9 DEF PolicyInv, WriterInv, AboutInv
  <2> QED BY <1>5, <2>1
<1>10. \A q \in Request : ViewKept(q)
  BY <1>1, <1>7, <1>8, <1>9 DEF ViewKept
<1> QED BY <1>1, <1>2, <1>3, <1>4, <1>5, <1>6, <1>10, RowsEdited

\* The suite starts without requests, without locks and without policies.
LEMMA PolicyStart == ASSUME Policies!Init PROVE PolicyInv
<1>1. /\ s3 = [m \in Model |-> "none"] /\ s4 = [r \in Request |-> Policies!Idle]
      /\ s5 = [r \in Request |-> {}] /\ s6 = 0
  BY DEF Policies!Init
<1>2. PolicyTypes
  BY <1>1, PolicyBounds DEF PolicyTypes, Policies!Init
<1>3. OneDefault(s3) /\ Excluded /\ \A m \in Model : s3[m] # "none" => Policies!Here(m)
  BY <1>1 DEF OneDefault, Excluded
<1>4. \A r \in Request : s4[r].pc = "idle"
  BY <1>1 DEF Policies!Idle
<1> QED BY <1>2, <1>3, <1>4 DEF PolicyInv, DraftInv, AboutInv, WriterInv, EraserInv

\* Every step of the policies keeps the invariant.
LEMMA PolicyStep == ASSUME PolicyInv, [Policies!Next]_Policies!vars PROVE PolicyInv'
<1>1. ASSUME NEW r \in Request,
             \/ Policies!LoadCatalog(r) \/ Policies!AskPut(r) \/ Policies!AskDelete(r)
             \/ Policies!LockTenant(r) \/ Policies!ShareModels(r) \/ Policies!Compare(r)
             \/ Policies!SaveMany(r) \/ Policies!LockModel(r) \/ Policies!RefusePut(r) \/ Policies!Put(r)
             \/ Policies!LockDoomed(r) \/ Policies!LookForPolicies(r) \/ Policies!Erase(r)
      PROVE  PolicyInv'
  BY <1>1, AskStep, LockStep, LookStep, CatalogStep, PutStep, EraseStep
<1>2. ASSUME NEW m \in Model,
             Policies!DropPolicy(m) \/ Policies!UpdateModel(m) \/ Policies!CreateModel(m)
      PROVE  PolicyInv'
  <2>1. Home[m] \in Provider
    BY PolicyBounds
  <2> QED BY <1>2, <2>1, DropStep, EditStep
<1>3. ASSUME NEW p \in Provider, Policies!UpdateProvider(p) \/ Policies!CreateProvider(p)
      PROVE  PolicyInv'
  <2>1. CASE Model = {}
    <3>1. s6 < MaxPolicies /\ s6' = s6 + 1 /\ UNCHANGED <<s2, s3, s4, s5>>
      BY <1>3 DEF Policies!UpdateProvider, Policies!CreateProvider, Policies!Edited
    <3>2. PolicyTypes /\ OneDefault(s3)'
      BY <3>1 DEF PolicyInv, OneDefault
    <3>3. s1' \in [Provider -> {"new", "on", "off", "gone"}] /\ s6' \in 0..MaxPolicies
      BY <1>3, <3>1, <3>2, PolicyBounds DEF PolicyTypes, Policies!UpdateProvider, Policies!CreateProvider
    <3>4. s2' \in [Model -> {"new", "on", "off", "gone"}] /\ s3' \in [Model -> {"none", "off", "on", "default"}]
      BY <3>1, <3>2 DEF PolicyTypes
    <3>5. ASSUME NEW q \in Request PROVE ViewKept(q)
      <4>1. AboutInv(s4[q]) /\ WriterInv(q) /\ EraserInv(q) /\ DraftInv(s4[q])
        BY DEF PolicyInv
      <4>2. s4[q].pc # "put"
        BY <2>1, <4>1 DEF AboutInv, WriterInv
      <4>3. s4[q].pc = "save" => DOMAIN s4[q].want = {}
        BY <2>1, <4>1 DEF WriterInv, DraftInv
      <4>4. Policies!Doomed(q)' = Policies!Doomed(q)
        BY <3>1 DEF Policies!Doomed, Policies!ModelsOf, Policies!Here
      <4> QED BY <3>1, <4>2, <4>3, <4>4 DEF ViewKept
    <3> QED BY <2>1, <3>1, <3>2, <3>3, <3>4, <3>5, RowsEdited
  <2>2. ASSUME NEW m \in Model PROVE PolicyInv'
    BY <1>3, EditStep
  <2> QED BY <2>1, <2>2
<1>4. ASSUME UNCHANGED Policies!vars PROVE PolicyInv'
  <2>1. UNCHANGED <<s1, s2, s3, s4, s5, s6>>
    BY <1>4 DEF Policies!vars
  <2>2. PolicyTypes /\ OneDefault(s3)' /\ \A m \in Model : s3[m] # "none" => Policies!Here(m)
    BY <2>1 DEF PolicyInv, OneDefault
  <2>3. \A m \in Model : Policies!Here(m)' <=> Policies!Here(m)
    BY <2>1 DEF Policies!Here
  <2>4. ASSUME NEW q \in Request PROVE ViewKept(q)
    <3>1. Policies!Doomed(q)' = Policies!Doomed(q)
      BY <2>1 DEF Policies!Doomed, Policies!ModelsOf, Policies!Here
    <3>2. s4[q].pc = "put" => s4[q].on \in Model /\ Policies!Here(s4[q].on)
      BY DEF PolicyInv, WriterInv, AboutInv
    <3>3. s4[q].pc = "put" => Policies!Here(s4[q].on)'
      BY <2>1, <3>2 DEF Policies!Here
    <3>4. \A m \in DOMAIN s4[q].want : Settled(m)
      BY <2>1 DEF Settled, Policies!Here, Policies!Usable, Policies!Available
    <3> QED BY <2>1, <3>1, <3>3, <3>4 DEF ViewKept
  <2>5. /\ s1' \in [Provider -> {"new", "on", "off", "gone"}] /\ s2' \in [Model -> {"new", "on", "off", "gone"}]
        /\ s3' \in [Model -> {"none", "off", "on", "default"}] /\ s6' \in 0..MaxPolicies
    BY <2>1, <2>2 DEF PolicyTypes
  <2>6. \A m \in Model : s3'[m] # "none" => Policies!Here(m)'
    BY <2>1, <2>2, <2>3
  <2> QED BY <2>1, <2>2, <2>3, <2>4, <2>5, <2>6, RowsEdited
<1> QED BY <1>1, <1>2, <1>3, <1>4 DEF Policies!Next

\* A request that is about to save ends only by saving.
LEMMA SavesOnly ==
    ASSUME PolicyInv, [Policies!Next]_Policies!vars, NEW r \in Request, s4[r].pc = "save", s4'[r].pc = "idle"
    PROVE  Policies!SaveMany(r)
<1>1. PolicyTypes /\ s4'[r] # s4[r]
  BY DEF PolicyInv
<1>2. ASSUME NEW q \in Request \ {r}, NEW n, s4' = [s4 EXCEPT ![q] = n] PROVE FALSE
  BY <1>1, <1>2 DEF PolicyTypes
<1>3. ASSUME NEW q \in Request \ {r}, NEW pc, s4' = [s4 EXCEPT ![q].pc = pc] PROVE FALSE
  <2> DEFINE n == [s4[q] EXCEPT !.pc = pc]
  <2>1. s4' = [s4 EXCEPT ![q] = n]
    BY <1>3
  <2> HIDE DEF n
  <2> QED BY <1>2, <2>1
<1>4. ASSUME NEW q \in Request,
             \/ Policies!LoadCatalog(q) \/ Policies!AskPut(q) \/ Policies!AskDelete(q)
             \/ Policies!LockTenant(q) \/ Policies!ShareModels(q) \/ Policies!Compare(q)
             \/ Policies!LockModel(q) \/ Policies!RefusePut(q) \/ Policies!Put(q)
             \/ Policies!LockDoomed(q) \/ Policies!LookForPolicies(q) \/ Policies!Erase(q)
      PROVE  FALSE
  <2>1. CASE q = r
    BY <1>4, <2>1 DEF Policies!LoadCatalog, Policies!AskPut, Policies!AskDelete, Policies!Begin,
       Policies!LockTenant, Policies!ShareModels, Policies!Compare, Policies!LockModel, Policies!RefusePut,
       Policies!Put, Policies!LockDoomed, Policies!LookForPolicies, Policies!Erase
  <2>2. CASE q # r
    <3>1. (\E n : s4' = [s4 EXCEPT ![q] = n]) \/ (\E pc : s4' = [s4 EXCEPT ![q].pc = pc])
      BY <1>4 DEF Policies!LoadCatalog, Policies!AskPut, Policies!AskDelete, Policies!Begin,
         Policies!LockTenant, Policies!ShareModels, Policies!Compare, Policies!LockModel, Policies!RefusePut,
         Policies!Put, Policies!LockDoomed, Policies!LookForPolicies, Policies!Erase, Policies!Take, Policies!End
    <3> QED BY <1>2, <1>3, <2>2, <3>1
  <2> QED BY <2>1, <2>2
<1>5. ASSUME NEW q \in Request \ {r}, Policies!SaveMany(q) PROVE FALSE
  BY <1>2, <1>5 DEF Policies!SaveMany, Policies!End
<1>6. ASSUME NEW m \in Model, Policies!DropPolicy(m) \/ Policies!UpdateModel(m) \/ Policies!CreateModel(m)
      PROVE  FALSE
  BY <1>1, <1>6 DEF Policies!DropPolicy, Policies!UpdateModel, Policies!CreateModel, Policies!Edited
<1>7. ASSUME NEW p \in Provider, Policies!UpdateProvider(p) \/ Policies!CreateProvider(p)
      PROVE  FALSE
  BY <1>1, <1>7 DEF Policies!UpdateProvider, Policies!CreateProvider, Policies!Edited
<1>8. ~UNCHANGED Policies!vars
  BY <1>1 DEF Policies!vars
<1> QED BY <1>4, <1>5, <1>6, <1>7, <1>8 DEF Policies!Next

\* A saved catalog replaces the grants its author saw, and grants what is available.
LEMMA SavedAsSeen == ASSUME PolicyInv, [Policies!Next]_Policies!vars PROVE Policies!SaveIsCurrent
<1> SUFFICES ASSUME NEW r \in Request, s4[r].pc = "save", s4'[r].pc = "idle"
             PROVE  /\ \A m \in Model : Policies!Granted(m) =
                         IF m \in DOMAIN s4[r].seen THEN s4[r].seen[m].grant ELSE "off"
                    /\ \A m \in DOMAIN s4[r].seen : Policies!Usable(m) = s4[r].seen[m].use
                    /\ \A m \in DOMAIN s4[r].want :
                         s3'[m] \in {"on", "default"} /\ s3[m] \notin {"on", "default"} => Policies!Available(m)
  BY DEF Policies!SaveIsCurrent
<1>1. Policies!SaveMany(r)
  BY SavesOnly
<1>2. WriterInv(r) /\ DraftInv(s4[r])
  BY DEF PolicyInv
<1>3. s3' = Policies!Replaced(s4[r].want)
  BY <1>1 DEF Policies!SaveMany
<1>4. \A m \in DOMAIN s4[r].want : m \in Model
  BY <1>2 DEF WriterInv, DraftInv
<1>5. ASSUME NEW m \in DOMAIN s4[r].want, s3'[m] \in {"on", "default"}, s3[m] \notin {"on", "default"}
      PROVE  Policies!Available(m)
  <2>1. s4[r].want[m] \in {"on", "default"}
    BY <1>3, <1>4, <1>5 DEF Policies!Replaced
  <2> QED BY <1>2, <1>5, <2>1 DEF WriterInv
<1>6. /\ \A m \in Model : Policies!Granted(m) =
           IF m \in DOMAIN s4[r].seen THEN s4[r].seen[m].grant ELSE "off"
      /\ \A m \in DOMAIN s4[r].seen : Policies!Usable(m) = s4[r].seen[m].use
  BY <1>2 DEF WriterInv
<1> QED BY <1>5, <1>6

\* Only a deletion that has seen no policy makes a model go.
LEMMA GrantsOutlive == ASSUME PolicyInv, [Policies!Next]_Policies!vars PROVE Policies!GrantsSurvive
<1> SUFFICES ASSUME NEW m \in Model, Policies!Here(m), s2'[m] = "gone" PROVE s3[m] = "none"
  BY DEF Policies!GrantsSurvive
<1>1. PolicyTypes /\ s2[m] # "gone"
  BY DEF PolicyInv, Policies!Here
<1>2. ASSUME NEW r \in Request, Policies!Erase(r) PROVE s3[m] = "none"
  <2>1. m \in Policies!Doomed(r)
    BY <1>1, <1>2 DEF Policies!Erase
  <2> QED BY <1>2, <2>1, ErasedUnnamed
<1>3. ASSUME NEW n \in Model, Policies!UpdateModel(n) \/ Policies!CreateModel(n) PROVE FALSE
  BY <1>1, <1>3 DEF PolicyTypes, Policies!UpdateModel, Policies!CreateModel
<1>4. ASSUME NEW r \in Request,
             \/ Policies!LoadCatalog(r) \/ Policies!AskPut(r) \/ Policies!AskDelete(r)
             \/ Policies!LockTenant(r) \/ Policies!ShareModels(r) \/ Policies!Compare(r)
             \/ Policies!SaveMany(r) \/ Policies!LockModel(r) \/ Policies!RefusePut(r) \/ Policies!Put(r)
             \/ Policies!LockDoomed(r) \/ Policies!LookForPolicies(r)
      PROVE  FALSE
  BY <1>1, <1>4 DEF Policies!LoadCatalog, Policies!AskPut, Policies!AskDelete, Policies!Begin,
     Policies!LockTenant, Policies!ShareModels, Policies!Compare, Policies!LockModel, Policies!RefusePut,
     Policies!Put, Policies!LockDoomed, Policies!LookForPolicies, Policies!SaveMany, Policies!Take
<1>5. ASSUME NEW p \in Provider, Policies!UpdateProvider(p) \/ Policies!CreateProvider(p) PROVE FALSE
  BY <1>1, <1>5 DEF Policies!UpdateProvider, Policies!CreateProvider
<1>6. ASSUME NEW n \in Model, Policies!DropPolicy(n) PROVE FALSE
  BY <1>1, <1>6 DEF Policies!DropPolicy
<1>7. ~UNCHANGED Policies!vars
  BY <1>1 DEF Policies!vars
<1> QED BY <1>2, <1>3, <1>4, <1>5, <1>6, <1>7 DEF Policies!Next

\* At most one policy of a tenant is the default.
LEMMA PolicyTypeOK == ASSUME PolicyInv PROVE Policies!TypeOK
<1> DEFINE D == {m \in Model : s3[m] = "default"}
<1>1. PolicyTypes /\ \A m, n \in D : m = n
  BY DEF PolicyInv, OneDefault, PolicyTypes
<1>2. Cardinality(D) <= 1
  <2>1. CASE D = {}
    BY <2>1, FS_EmptySet
  <2>2. ASSUME NEW m \in D PROVE Cardinality(D) <= 1
    <3>1. D = {m}
      BY <1>1
    <3> HIDE DEF D
    <3> QED BY <3>1, FS_Singleton
  <2> QED BY <2>1, <2>2
<1>3. Policies!Cardinality(D) = Cardinality(D)
  BY DEF Policies!Cardinality, Cardinality
<1> HIDE DEF D
<1>4. Policies!Cardinality(D) <= 1
  BY <1>2, <1>3
<1> QED BY <1>1, <1>4 DEF Policies!TypeOK, PolicyTypes, D

\* No administrator overwrites a grant he did not see, no saved catalog grants what is switched off,
\* and no deletion of a provider or a model takes a policy along: for any number of requests,
\* providers and models (model_policy_service.py, ai_model_service.py).
THEOREM PoliciesAreCurrent == Spec => PoliciesHold
<1>1. part = "policies" /\ Init => PolicyInv
  BY PolicyStart DEF Init
<1>2. part = "policies" /\ [Next]_vars => [Policies!Next]_Policies!vars /\ (part = "policies")'
  BY DEF Next, vars, from5, from7, from8, from9, from10, from13, Policies!vars
<1>3. part = "policies" /\ PolicyInv /\ [Next]_vars => PolicyInv' /\ (part = "policies")'
  BY <1>2, PolicyStep
<1>4. (part = "policies" => PolicyInv) => (part = "policies" => Policies!TypeOK)
  BY PolicyTypeOK
<1>5. (part = "policies" => PolicyInv) /\ [Next]_vars =>
        [part = "policies" => Policies!SaveIsCurrent /\ Policies!GrantsSurvive]_vars
  BY <1>2, SavedAsSeen, GrantsOutlive
<1>6. ~(part = "policies") /\ [Next]_vars => ~(part = "policies")'
  BY PartStays
<1>7. PoliciesHold <=>
        /\ [](part = "policies" => Policies!TypeOK)
        /\ [][part = "policies" => Policies!SaveIsCurrent /\ Policies!GrantsSurvive]_vars
  BY DEF PoliciesHold
<1> QED BY <1>1, <1>3, <1>4, <1>5, <1>6, <1>7, PTL DEF Spec
=============================================================================
