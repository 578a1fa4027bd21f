---------------------------- MODULE FileQueryProofs ----------------------------
(***************************************************************************)
(* Proofs about FileQuery, for every directory, every order of entries and *)
(* flavors, every file that arrives and every query.                       *)
(***************************************************************************)
EXTENDS FileQuery, TLAPS

(* Flavors that were passed over had no match, and an answer without an    *)
(* exact match comes from a directory read to its end.                     *)
FlavorInv ==
  /\ \A i \in 1..(k - 1), f \in before : ~Matches(f, query, FlavorOrder[i])
  /\ best # None => Matches(best, query, Flavor)
  /\ best # None /\ Exact(best, query) => done
  /\ done => before \subseteq seen \/ (best # None /\ Exact(best, query))
  /\ done /\ best = None => k = Len(FlavorOrder)

(* The payload kept is the best of the entries passed.                     *)
BestInv ==
  \A f \in seen :
    Matches(f, query, Flavor) =>
      /\ best # None
      /\ Exact(best, query) \/ (~Exact(f, query) /\ f.bt <= best.bt)

Inv == TypeOK /\ FlavorInv /\ BestInv
-----------------------------------------------------------------------------
LEMMA OrderLength == Len(FlavorOrder) \in Nat \ {0}
  BY QueryAssumption

LEMMA InitInv == Init => Inv
  <1>. SUFFICES ASSUME Init PROVE Inv
    OBVIOUS
  <1>1. k \in 1..Len(FlavorOrder)
    BY OrderLength DEF Init
  <1>2. TypeOK
    BY <1>1, QueryAssumption DEF Init, TypeOK
  <1>3. FlavorInv
    BY DEF Init, FlavorInv
  <1>4. BestInv
    BY DEF Init, BestInv
  <1>. QED BY <1>2, <1>3, <1>4 DEF Inv

(* What the steps at an entry have in common.                              *)
LEMMA EntryTypes ==
  ASSUME TypeOK, NEW f \in files, Entry(f), best' \in {best, f}, done' \in BOOLEAN
  PROVE  TypeOK'
  BY DEF TypeOK, Entry

LEMMA SkipInv ==
  ASSUME Inv, NEW f \in files, Skip(f)
  PROVE  Inv'
  <1>. USE DEF Skip, Entry
  <1>1. TypeOK'
    BY EntryTypes DEF Inv, TypeOK
  <1>2. FlavorInv'
    BY DEF Inv, FlavorInv, Flavor
  <1>3. BestInv'
    BY DEF Inv, BestInv, Flavor
  <1>. QED BY <1>1, <1>2, <1>3 DEF Inv

LEMMA NotNone == ASSUME TypeOK, NEW f \in files PROVE f # None
  BY QueryAssumption DEF TypeOK

LEMMA HitInv ==
  ASSUME Inv, NEW f \in files, Hit(f)
  PROVE  Inv'
  <1>. USE DEF Hit, Entry
  <1>1. TypeOK'
    BY EntryTypes DEF Inv
  <1>2. f # None
    BY NotNone DEF Inv
  <1>3. FlavorInv'
    BY <1>2 DEF Inv, FlavorInv, Flavor
  <1>4. BestInv'
    BY <1>2 DEF Inv, BestInv, Flavor
  <1>. QED BY <1>1, <1>3, <1>4 DEF Inv

LEMMA WeighInv ==
  ASSUME Inv, NEW f \in files, Weigh(f)
  PROVE  Inv'
  <1>. USE DEF Weigh, Entry
  <1>1. TypeOK'
    BY EntryTypes DEF Inv, TypeOK
  <1>2. f # None
    BY NotNone DEF Inv
  <1>3. FlavorInv'
    BY <1>2 DEF Inv, FlavorInv, Flavor
  <1>4. query.evt \in Nat /\ query' = query
    BY QueryAssumption DEF Inv, TypeOK
  <1>5. \A g \in files : g.bt \in Nat
    BY DEF Inv, TypeOK, File
  <1>6. best' # None /\ f.bt <= best'.bt /\ (best # None => best.bt <= best'.bt)
    <2>1. CASE best = None
      BY <2>1, <1>2, <1>5 DEF Better
    <2>2. CASE best # None
      <3>1. best \in files /\ best.bt \in Nat /\ f.bt \in Nat
        BY <2>2, <1>5 DEF Inv, TypeOK
      <3>. QED BY <3>1, <2>2, <1>2, <1>4 DEF Better
    <2>. QED BY <2>1, <2>2
  <1>7. ASSUME NEW g \in seen', Matches(g, query', Flavor')
        PROVE  best' # None /\ ~Exact(g, query') /\ g.bt <= best'.bt
    <2>1. CASE g = f
      BY <2>1, <1>6
    <2>2. CASE g # f
      <3>1. g \in seen /\ Matches(g, query, Flavor)
        BY <2>2, <1>7 DEF Flavor
      <3>2. best # None /\ ~Exact(g, query) /\ g.bt <= best.bt
        BY <3>1 DEF Inv, BestInv, FlavorInv
      <3>3. g.bt \in Nat /\ best.bt \in Nat /\ best'.bt \in Nat
        BY <3>1, <3>2, <1>5 DEF Inv, TypeOK
      <3>. QED BY <3>2, <3>3, <1>6
    <2>. QED BY <2>1, <2>2
  <1>8. BestInv'
    BY <1>7 DEF BestInv
  <1>. QED BY <1>1, <1>3, <1>8 DEF Inv

LEMMA EndOfDirectoryInv ==
  ASSUME Inv, EndOfDirectory
  PROVE  Inv'
  <1>. USE DEF EndOfDirectory
  <1>1. k \in 1..Len(FlavorOrder)
    BY DEF Inv, TypeOK
  <1>2. CASE best # None \/ k = Len(FlavorOrder)
    <2>1. TypeOK'
      BY <1>2 DEF Inv, TypeOK
    <2>2. FlavorInv'
      BY <1>2 DEF Inv, FlavorInv, Flavor
    <2>3. BestInv'
      BY <1>2 DEF Inv, BestInv, Flavor
    <2>. QED BY <2>1, <2>2, <2>3 DEF Inv
  <1>3. CASE ~(best # None \/ k = Len(FlavorOrder))
    <2>1. best = None /\ k' = k + 1 /\ seen' = {} /\ k' \in 1..Len(FlavorOrder)
      BY <1>1, <1>3, OrderLength
    <2>2. TypeOK'
      BY <1>3, <2>1 DEF Inv, TypeOK
    <2>3. \A f \in before : ~Matches(f, query, Flavor)
      BY <2>1 DEF Inv, BestInv
    <2>4. \A i \in 1..(k' - 1) : i \in 1..(k - 1) \/ i = k
      BY <1>1, <2>1
    <2>5. \A i \in 1..(k' - 1), f \in before' : ~Matches(f, query', FlavorOrder[i])
      BY <2>3, <2>4 DEF Inv, FlavorInv, Flavor
    <2>6. FlavorInv'
      BY <1>3, <2>1, <2>5 DEF FlavorInv
    <2>7. BestInv'
      BY <2>1 DEF BestInv
    <2>. QED BY <2>2, <2>6, <2>7 DEF Inv
  <1>. QED BY <1>2, <1>3

LEMMA ArriveInv ==
  ASSUME Inv, Arrive
  PROVE  Inv'
  <1>. USE DEF Arrive
  <1>1. TypeOK'
    BY QueryAssumption DEF Inv, TypeOK
  <1>2. FlavorInv'
    BY DEF Inv, FlavorInv, Flavor
  <1>3. BestInv'
    BY DEF Inv, BestInv, Flavor
  <1>. QED BY <1>1, <1>2, <1>3 DEF Inv

LEMMA StepInv == Inv /\ [Next]_vars => Inv'
  <1>. SUFFICES ASSUME Inv, [Next]_vars PROVE Inv'
    OBVIOUS
  <1>1. ASSUME NEW f \in files, Skip(f) PROVE Inv'
    BY <1>1, SkipInv
  <1>2. ASSUME NEW f \in files, Hit(f) PROVE Inv'
    BY <1>2, HitInv
  <1>3. ASSUME NEW f \in files, Weigh(f) PROVE Inv'
    BY <1>3, WeighInv
  <1>4. CASE EndOfDirectory
    BY <1>4, EndOfDirectoryInv
  <1>5. CASE Arrive
    BY <1>5, ArriveInv
  <1>6. CASE UNCHANGED vars
    BY <1>6 DEF vars, Inv, TypeOK, FlavorInv, BestInv, Flavor
  <1>. QED BY <1>1, <1>2, <1>3, <1>4, <1>5, <1>6 DEF Next

LEMMA Invariance == Spec => []Inv
  BY InitInv, StepInv, PTL DEF Spec
-----------------------------------------------------------------------------
LEMMA BestFollows == Inv => BestOfFlavor
  <1>. SUFFICES ASSUME Inv, done PROVE BestOfFlavor
    BY DEF BestOfFlavor
  <1>1. k \in 1..Len(FlavorOrder)
    BY DEF Inv, TypeOK
  <1>2. ASSUME NEW i \in 1..Len(FlavorOrder), NEW f \in before,
               Matches(f, query, FlavorOrder[i])
        PROVE  best # None /\ k <= i
    <2>1. k <= i
      <3>1. i \notin 1..(k - 1)
        BY <1>2 DEF Inv, FlavorInv
      <3>. QED BY <3>1, <1>1, OrderLength
    <2>2. best # None
      <3>. SUFFICES ASSUME best = None PROVE FALSE
        OBVIOUS
      <3>1. k = Len(FlavorOrder) /\ before \subseteq seen
        BY DEF Inv, FlavorInv
      <3>2. i = k
        BY <3>1, <2>1, <1>1
      <3>. QED BY <3>1, <3>2, <1>2 DEF Inv, BestInv, Flavor
    <2>. QED BY <2>1, <2>2
  <1>3. ASSUME best # None
        PROVE  /\ Matches(best, query, Flavor)
               /\ \A f \in before :
                    Matches(f, query, Flavor) /\ ~Exact(best, query) =>
                      ~Exact(f, query) /\ f.bt <= best.bt
    BY <1>3 DEF Inv, FlavorInv, BestInv
  <1>. QED BY <1>2, <1>3 DEF BestOfFlavor

(* The two WHERE clauses agree on payloads by time.                        *)
LEMMA SameRows ==
  ASSUME TypeOK, NEW f \in files, NEW fl,
         query.run = 0, query.evt # 0, f.dt # 0 => f.dt # query.mt
  PROVE  Admits(f, query, fl) <=> Matches(f, query, fl)
  <1>1. query.mt \in Nat /\ query.evt \in Nat
    BY QueryAssumption DEF TypeOK
  <1>2. f.dt \in Nat /\ f.bt \in Nat /\ f.et \in Nat /\ f.ct \in Nat
    BY DEF TypeOK, File
  <1>. QED BY <1>1, <1>2 DEF Admits, Matches, InTime

LEMMA AgreementFollows == Inv => AgreesWithDatabase
  <1>. SUFFICES ASSUME Inv, done, query.run = 0, query.evt # 0,
                       \A f \in files : f.run = 0 /\ (f.dt # 0 => f.dt # query.mt)
                PROVE  /\ \A i \in 1..(k - 1) :
                            DatabaseAnswers(before, query, FlavorOrder[i]) = {}
                       /\ IF best = None
                            THEN /\ k = Len(FlavorOrder)
                                 /\ DatabaseAnswers(before, query, Flavor) = {}
                            ELSE best \in DatabaseAnswers(before \union {best}, query, Flavor)
    BY DEF AgreesWithDatabase
  <1>1. before \subseteq files /\ best \in files \union {None}
    BY DEF Inv, TypeOK
  <1>2. \A f \in files : \A fl : Admits(f, query, fl) <=> Matches(f, query, fl)
    BY SameRows DEF Inv
  <1>3. before \subseteq seen /\ ~Exact(best, query)
    BY DEF Inv, FlavorInv, Exact
  <1>4. \A i \in 1..(k - 1) : DatabaseAnswers(before, query, FlavorOrder[i]) = {}
    BY <1>1, <1>2 DEF DatabaseAnswers, Inv, FlavorInv
  <1>5. CASE best = None
    <2>1. k = Len(FlavorOrder)
      BY <1>5 DEF Inv, FlavorInv
    <2>2. DatabaseAnswers(before, query, Flavor) = {}
      BY <1>1, <1>2, <1>3, <1>5 DEF DatabaseAnswers, Inv, BestInv
    <2>. QED BY <1>4, <1>5, <2>1, <2>2
  <1>6. CASE best # None
    <2>1. best \in files /\ Admits(best, query, Flavor)
      BY <1>1, <1>2, <1>6 DEF Inv, FlavorInv
    <2>2. \A g \in before : Admits(g, query, Flavor) => g.bt <= best.bt
      BY <1>1, <1>2, <1>3 DEF Inv, BestInv
    <2>3. best.bt <= best.bt
      <3>1. best.bt \in Nat
        BY <2>1 DEF Inv, TypeOK, File
      <3>. QED BY <3>1
    <2>4. best \in DatabaseAnswers(before \union {best}, query, Flavor)
      BY <2>1, <2>2, <2>3 DEF DatabaseAnswers
    <2>. QED BY <1>4, <1>6, <2>4
  <1>. QED BY <1>5, <1>6
-----------------------------------------------------------------------------
(* The answer of getPayload does not depend on the order of the entries of *)
(* a directory, nor on a file that arrives while they are read.            *)
THEOREM BestOfFlavorHolds == Spec => []BestOfFlavor
  BY Invariance, BestFollows, PTL

(* By time, getPayload of the file adapter and that of the db adapter give *)
(* the same answer from the same payloads, for any order of the entries    *)
(* and any file that arrives.                                              *)
THEOREM AgreesWithDatabaseHolds == Spec => []AgreesWithDatabase
  BY Invariance, AgreementFollows, PTL
=================================================================================
