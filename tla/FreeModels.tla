----------------------------- MODULE FreeModels -----------------------------
(***************************************************************************)
(* Which of OpenRouter's free models a synchronisation keeps.  Both control *)
(* planes rank the same listing: the console's ModelService keeps the best  *)
(* few, the legacy control plane fills four aliases.                        *)
(*                                                                         *)
(* A listing is a sequence of items, and items are named by their index.   *)
(* An item is a record: price is prompt plus completion, id is "" when it is*)
(* missing, context and params are 0 when missing or no number, inputs are  *)
(* its modalities, and marks are what the two programs look for in the id:  *)
(* "vendor" and "vendor2" (a vendor both know, or only the console),        *)
(* "reason", "r1" (the id ends in r1), "r1:free" (it does once the suffix is*)
(* cut), "code", "vision" and ":free".                                      *)
(***************************************************************************)
EXTENDS Ordering, Sequences, SequencesExt

\* Mutant of FreeItems: nobody looks at the price.
AllItems(answer) == DOMAIN answer

\* Prices that are not a number, and items that are not objects, are not free.
FreeItems(answer) == {k \in DOMAIN answer : answer[k].price = 0}

Named(answer) == {k \in FreeItems(answer) : answer[k].id # ""}

\* No id is listed twice.
IsListing(answer) ==
    /\ answer \in Seq(ToSet(answer))
    /\ \A j, k \in Named(answer) : answer[j].id = answer[k].id => j = k

\* The first step of a ladder of <<threshold, points>> that v reaches.
Points(v, ladder) ==
    LET reached == {k \in DOMAIN ladder : v >= ladder[k][1]}
    IN IF reached = {} THEN 0 ELSE ladder[Min(reached)][2]

\* s[:n]
Take(s, n) == SubSeq(s, 1, Min({n, Len(s)}))

If(b, n) == IF b THEN n ELSE 0

Bears(i, marks) == i.marks \cap marks # {}

\* list.sort(reverse=True): the higher score first, equal scores as listed.
Higher(items, score) ==
    {e \in items \X items :
        \/ score[e[1]] > score[e[2]]
        \/ score[e[1]] = score[e[2]] /\ e[1] < e[2]}

Ranked(items, score) == InOrder(items, Higher(items, score))

(***************************************************************************)
(* The console: ModelService                                               *)
(***************************************************************************)
\* Modalities other than these are ignored; without any it is a text model.
Inputs(i) ==
    LET known == i.inputs \cap {"text", "image"}
    IN IF known = {} THEN {"text"} ELSE known

Multimodal(i) == "image" \in Inputs(i) \/ Bears(i, {"vision"})

VendorBonus(i) == If(Bears(i, {"vendor", "vendor2"}), 10)

\* Contexts and parameters are counted in thousands and in billions.
Score(i) ==
    Points(i.context, <<<<200, 15>>, <<128, 12>>, <<64, 8>>, <<32, 4>>>>)
    + If(Bears(i, {"reason", "r1"}), 12) + If(Bears(i, {"code"}), 10)
    + If(Multimodal(i), 8) + VendorBonus(i)
    + Points(i.params, <<<<100, 8>>, <<30, 5>>, <<10, 2>>>>)

Ranking(answer) == Ranked(Named(answer), [k \in Named(answer) |-> Score(answer[k])])

\* The best n; when none of them takes images, the best that does replaces
\* the last.
SelectTop(answer, n) ==
    LET ranked == Ranking(answer)
        top == Take(ranked, n)
        seeing == {p \in DOMAIN ranked : Multimodal(answer[ranked[p]])}
    IN IF seeing # {} /\ Min(seeing) > n
       THEN [top EXCEPT ![n] = ranked[Min(seeing)]]
       ELSE top

\* The selection, said without an order of work: what is kept and what is
\* left of the named free items, and why.
TopIsRight(answer, n) ==
    LET all == Named(answer)
        kept == ToSet(SelectTop(answer, n))
        Sees(k) == Multimodal(answer[k])
        seen == {k \in kept : Sees(k)}
        Beats(j, k) == Score(answer[j]) >= Score(answer[k])
    IN /\ kept \subseteq all
       /\ Cardinality(kept) = Min({n, Cardinality(all)})
       /\ (seen = {}) => \A k \in all : ~Sees(k)
       /\ \E swapped \in SUBSET seen :
             /\ Cardinality(swapped) <= 1
             /\ swapped # {} => swapped = seen
             /\ \A j \in kept \ swapped, k \in all \ kept : Beats(j, k)
             /\ \A j \in swapped, k \in all \ kept : Sees(k) => Beats(j, k)

(***************************************************************************)
(* The legacy control plane: _run_openrouter_free_sync                     *)
(***************************************************************************)
LegacyReasons(i) == Bears(i, {"reason", "r1", "r1:free"})

LegacyScore(i) ==
    Points(i.context, <<<<128, 30>>, <<32, 20>>, <<8, 10>>>>)
    + If(Bears(i, {"vendor"}), 20) + If(LegacyReasons(i), 15)
    + Points(i.params, <<<<100, 10>>, <<30, 5>>>>)

LegacyRanking(answer) ==
    LET order == Ranked(Named(answer), [k \in Named(answer) |-> LegacyScore(answer[k])])
    IN [p \in DOMAIN order |-> answer[order[p]]]

\* A model of unknown size counts as fast when its context is known and
\* small; params is only None when `architecture` is no object or its number
\* no number, and is 0, not None, when it is just missing.
Fast(i) ==
    \/ 0 < i.params /\ i.params < 15
    \/ i.params = 0 /\ i.oddSize /\ 0 < i.context /\ i.context <= 32

Tags(i) ==
    {"general"} \cup (IF Bears(i, {"code"}) THEN {"code"} ELSE {})
                \cup (IF Fast(i) THEN {"fast"} ELSE {})

Slots == {"best", "code", "fast", "general"}

Place == [best |-> 0, code |-> 1, fast |-> 2, general |-> 3]

\* Mutant of Filled: general is not kept from being the best.
FilledTwice(ranked, slot) ==
    LET fit == IF slot = "best" THEN DOMAIN ranked
               ELSE {p \in DOMAIN ranked : slot \in Tags(ranked[p])}
    IN IF fit = {} THEN 0 ELSE Min(fit)

\* The place in the ranking of the item that fills a slot in the loop over it:
\* the first with the tag, for general the first after the best; 0 for none.
Filled(ranked, slot) ==
    LET fit == IF slot = "best" THEN DOMAIN ranked
               ELSE {p \in DOMAIN ranked : /\ slot \in Tags(ranked[p])
                                           /\ slot = "general" => p > 1}
    IN IF fit = {} THEN 0 ELSE Min(fit)

\* When the loop left a slot empty: the third for code, the last for fast.
Fallback(ranked, slot) ==
    CASE slot = "code" /\ Len(ranked) > 2 -> 3
      [] slot = "fast" -> Len(ranked)
      [] OTHER -> 0

FilledBy(ranked, slot) ==
    IF Filled(ranked, slot) # 0 THEN Filled(ranked, slot) ELSE Fallback(ranked, slot)

\* The aliases a listing gives: slot to id, for the slots it can fill.
AliasMap(answer) ==
    LET ranked == LegacyRanking(answer)
    IN [slot \in {s \in Slots : FilledBy(ranked, s) # 0} |-> ranked[FilledBy(ranked, slot)].id]

\* The dict's order: slots as the loop meets them, then those it left empty.
AliasOrder(answer) ==
    LET ranked == LegacyRanking(answer)
        slots == DOMAIN AliasMap(answer)
        turn == [s \in slots |-> Place[s] + 4 *
            IF Filled(ranked, s) # 0 THEN Filled(ranked, s) ELSE Len(ranked) + 1]
    IN InOrder(slots, {e \in slots \X slots : turn[e[1]] < turn[e[2]]})

\* What the aliases of a listing are to be, said without an order of work.
MapIsRight(answer) ==
    LET all == Named(answer)
        map == AliasMap(answer)
        Of(slot) == CHOOSE k \in all : answer[k].id = map[slot]
        Beats(j, k) == LegacyScore(answer[j]) >= LegacyScore(answer[k])
        Fits(slot) == {k \in all : slot \in Tags(answer[k])}
    IN /\ \A slot \in DOMAIN map : \E k \in all : answer[k].id = map[slot]
       /\ DOMAIN map = {slot \in Slots :
              CASE slot \in {"best", "fast"} -> all # {}
                [] slot = "general" -> Cardinality(all) > 1
                [] slot = "code" -> Fits("code") # {} \/ Cardinality(all) > 2}
       /\ "best" \in DOMAIN map => \A k \in all : Beats(Of("best"), k)
       /\ "general" \in DOMAIN map =>
              /\ map["general"] # map["best"]
              /\ \A k \in all \ {Of("best")} : Beats(Of("general"), k)
       /\ \A slot \in {"code", "fast"} : Fits(slot) # {} =>
              /\ Of(slot) \in Fits(slot)
              /\ \A k \in Fits(slot) : Beats(Of(slot), k)
       /\ Fits("fast") = {} /\ all # {} => \A k \in all : Beats(k, Of("fast"))
=============================================================================
