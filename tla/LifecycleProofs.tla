--------------------------- MODULE LifecycleProofs ---------------------------
(* Proofs about creating, loading and freeing a storage, for any number of *)
(* indexes, descriptors, failing opens and deaths of the process.          *)
EXTENDS Lifecycle, TLAPS, WellFoundedInduction

(* Where a call is, and which regions it has not come to.                  *)
Progress ==
  /\ call = None <=> stage = None
  /\ call = "load" => stage \in {"open", "indexes"}
  /\ call # None => ~open
  /\ call = "create" => creates > 0
  /\ stage = "open" => next <= Arena
  /\ stage \in {"arena", "indexes"} => next > Arena
  /\ stage \in {"open", "arena", "indexes"} =>
       \A f \in Files : f >= next => region[f] = None
  /\ call = None /\ ~open => \A f \in Files : region[f] = None

(* What has been initialised exists, and a create initialises in order.    *)
Initialised ==
  /\ \A f \in Files : written[f] > 0 \/ region[f] # None => f \in exists
  /\ \/ stage \in {"header", "index init"}
     \/ stage = "indexes" /\ call = "create"
     => written[Arena] > 0
  /\ stage = "index init" => written[Header] > 0

(* An open file that is not one of a region is an arena or a header.       *)
Tracked ==
  \A d \in Descriptors :
    \/ table[d] \in {None, Stdin, Header, Arena}
    \/ table[d] \in Files /\ region[table[d]] = d

(* While nothing failed, and the table is not full, what a call has come   *)
(* to is mapped.                                                           *)
Mapped ==
  (call # None \/ open) /\ failures = 0 /\ FreeDescriptors # {} =>
    \A f \in Files : (stage \in {"open", "arena", "indexes"} => f < next) => region[f] # None

(* The type invariant and the owners of descriptors, in parts that the     *)
(* provers take one at a time.                                             *)
Counts ==
  /\ nextFree \in 0..MaxRecords /\ creates \in 0..MaxCreates
  /\ failures \in 0..MaxFailures /\ crashes \in 0..MaxCrashes
  /\ written \in [Files -> 0..MaxCreates] /\ next \in Files /\ exists \subseteq Files
CallsTyped ==
  /\ call \in {None, "create", "load"} /\ identified \in BOOLEAN /\ open \in BOOLEAN
  /\ stage \in {None, "open", "arena", "indexes", "header", "index init"}
Owned ==
  /\ region \in [Files -> Descriptors \cup {None}]
  /\ table \in [Descriptors -> Files \cup {Stdin, None}]
  /\ \A f \in Files : region[f] # None => table[region[f]] = f

IInv ==
  /\ Counts /\ CallsTyped /\ Owned
  /\ IdentifierLast /\ Progress /\ Initialised /\ Tracked /\ Mapped

(* Every set of natural numbers has a least element.                       *)
LEMMA LeastNatural ==
  ASSUME NEW S \in SUBSET Nat, S # {}
  PROVE  \E n \in S : \A m \in S : n <= m
<1>1. PICK R : R = OpToRel(<, Nat)
  OBVIOUS
<1>2. IsWellFoundedOn(R, Nat)
  BY <1>1, NatLessThanWellFounded
<1>3. PICK x \in S : \A y \in S : ~(<<y, x>> \in R)
  BY <1>2, WFMin
<1>4. \A y \in S : y < x => <<y, x>> \in R
  BY <1>1 DEF OpToRel
<1>5. \A y \in S : ~(y < x)
  BY <1>3, <1>4
<1> QED
  BY <1>5

LEMMA MinIsIn ==
  ASSUME NEW S \in SUBSET Nat, S # {}
  PROVE  Min(S) \in S
BY LeastNatural DEF Min

(* The descriptor an open gets.                                            *)
LEMMA FreeDescriptor ==
  ASSUME FreeDescriptors # {}
  PROVE  Min(FreeDescriptors) \in Descriptors /\ table[Min(FreeDescriptors)] = None
<1>1. FreeDescriptors \in SUBSET Nat
  BY CountsAssumption DEF FreeDescriptors, Descriptors
<1> QED
  BY <1>1, MinIsIn DEF FreeDescriptors

(* What None and Stdin are not.                                            *)
LEMMA Calls ==
  /\ None # "create" /\ None # "load" /\ None # "open" /\ None # "arena"
  /\ None # "indexes" /\ None # "header" /\ None # "index init"
BY NamesAssumption

LEMMA Numbers == None \notin Nat /\ Stdin \notin Nat /\ None # Stdin
BY NamesAssumption

LEMMA FileNumbers ==
  /\ Header \in Files /\ Arena \in Files /\ Header # Arena
  /\ Indexes \subseteq Files /\ Header \notin Indexes /\ Arena \notin Indexes
  /\ Files \subseteq Nat /\ None \notin Files /\ None \notin Descriptors
  /\ 0 \in Descriptors /\ Descriptors \subseteq Nat
BY CountsAssumption, Numbers DEF Files, Header, Arena, Indexes, Descriptors

LEMMA InitIInv == Init => IInv
<1> USE CountsAssumption
<1> SUFFICES ASSUME Init PROVE IInv
  OBVIOUS
<1> USE DEF Init
<1>1. Counts
  <2>1. next \in Files
    BY DEF Files, Header
  <2> QED
    BY <2>1 DEF Counts
<1>6. CallsTyped
  BY DEF CallsTyped
<1>7. Owned
  BY DEF Owned, Started
<1>2. IdentifierLast
  BY DEF IdentifierLast
<1>3. Progress
  BY Calls DEF Progress
<1>4. Initialised
  <2>1. \A f \in Files : written[f] = 0 /\ region[f] = None
    OBVIOUS
  <2>2. \A f \in Files : ~(written[f] > 0 \/ region[f] # None)
    BY <2>1
  <2> QED
    BY <2>2, Calls DEF Initialised
<1>5. Tracked /\ Mapped
  BY DEF Init, Tracked, Started, Mapped
<1> QED
  BY <1>1, <1>2, <1>3, <1>4, <1>5, <1>6, <1>7 DEF IInv
------------------------------------------------------------------------------
(* An open gives the region a descriptor of its own and touches no other.  *)
LEMMA OpenedFacts ==
  ASSUME IInv, NEW f \in Files, region[f] = None, Opened(f)
  PROVE  /\ region' \in [Files -> Descriptors \cup {None}]
         /\ table' \in [Descriptors -> Files \cup {Stdin, None}]
         /\ \A g \in Files : region'[g] # None => table'[region'[g]] = g
         /\ region'[f] # None
         /\ \A g \in Files \ {f} : region'[g] = region[g]
         /\ Tracked'
         /\ exists' = exists \cup {f} /\ exists' \subseteq Files
         /\ FreeDescriptors # {}
<1> DEFINE d == Min(FreeDescriptors)
<1>1. d \in Descriptors /\ table[d] = None
  BY FreeDescriptor DEF Opened
<1>2. region \in [Files -> Descriptors \cup {None}]
      /\ table \in [Descriptors -> Files \cup {Stdin, None}] /\ exists \subseteq Files
  BY DEF IInv, Owned, Counts
<1>3. region' = [region EXCEPT ![f] = d] /\ table' = [table EXCEPT ![d] = f]
      /\ exists' = exists \cup {f} /\ FreeDescriptors # {}
  BY DEF Opened
<1>4. f # None /\ d # None /\ \A g \in Files : g # None
  BY <1>1, Numbers, CountsAssumption DEF Descriptors, Files
<1> HIDE DEF d
<1>5. \A g \in Files \ {f} : region'[g] = region[g]
  BY <1>2, <1>3
<1>6. region'[f] = d /\ table'[d] = f
  BY <1>1, <1>2, <1>3
<1>7. \A g \in Files : region[g] # None => region[g] \in Descriptors /\ table[region[g]] = g
  BY <1>2 DEF IInv, Owned
<1>8. \A g \in Files : region[g] # None => region[g] # d
  BY <1>1, <1>4, <1>7
<1>9. \A g \in Files : region'[g] # None => table'[region'[g]] = g
  <2> SUFFICES ASSUME NEW g \in Files, region'[g] # None
               PROVE  table'[region'[g]] = g
    OBVIOUS
  <2>1. CASE g = f
    BY <1>6, <2>1
  <2>2. CASE g # f
    BY <1>2, <1>3, <1>5, <1>7, <1>8, <2>2
  <2> QED
    BY <2>1, <2>2
<1>10. Tracked'
  <2> SUFFICES ASSUME NEW e \in Descriptors
               PROVE  \/ table'[e] \in {None, Stdin, Header, Arena}
                      \/ table'[e] \in Files /\ region'[table'[e]] = e
    BY DEF Tracked
  <2>1. CASE e = d
    BY <1>6, <2>1
  <2>2. CASE e # d
    <3>1. table'[e] = table[e]
      BY <1>2, <1>3, <2>2
    <3>2. \/ table[e] \in {None, Stdin, Header, Arena}
          \/ table[e] \in Files /\ region[table[e]] = e
      BY DEF IInv, Tracked
    <3>3. table[e] \in Files /\ region[table[e]] = e => table[e] # f
      BY <1>4, <1>1, <1>2, Numbers, CountsAssumption DEF Descriptors
    <3> QED
      BY <1>5, <3>1, <3>2, <3>3
  <2> QED
    BY <2>1, <2>2
<1> QED
  BY <1>1, <1>2, <1>3, <1>4, <1>5, <1>6, <1>9, <1>10

(* A create's store marks a file that exists, and no other.                *)
LEMMA Writing ==
  ASSUME IInv, NEW f \in Files, region[f] # None, creates > 0,
         written' = [written EXCEPT ![f] = creates],
         UNCHANGED <<exists, identified, region>>
  PROVE  /\ written' \in [Files -> 0..MaxCreates] /\ written'[f] > 0
         /\ \A g \in Files : written[g] > 0 => written'[g] > 0
         /\ \A g \in Files : written'[g] > 0 \/ region'[g] # None => g \in exists'
         /\ IdentifierLast'
<1>1. written \in [Files -> 0..MaxCreates] /\ creates \in 0..MaxCreates
  BY DEF IInv, Counts
<1>2. written'[f] = creates /\ \A g \in Files \ {f} : written'[g] = written[g]
  BY <1>1
<1>3. written' \in [Files -> 0..MaxCreates]
  BY <1>1
<1>4. \A g \in Files : written[g] > 0 => written'[g] > 0
  BY <1>2
<1>5. \A g \in Files : written'[g] > 0 \/ region'[g] # None => g \in exists'
  BY <1>2 DEF IInv, Initialised
<1>6. IdentifierLast'
  BY <1>4, FileNumbers DEF IInv, IdentifierLast
<1> QED
  BY <1>2, <1>3, <1>4, <1>5, <1>6

(* A call that starts finds no region mapped.                              *)
LEMMA Entering ==
  ASSUME IInv, call = None, ~open, region' = [f \in Files |-> None]
  PROVE  region' = region
BY DEF IInv, Progress, Owned

LEMMA CreateStartIInv == IInv /\ CreateStart => IInv'
<1> SUFFICES ASSUME IInv, CreateStart PROVE IInv'
  OBVIOUS
<1>1. Counts'
  BY CountsAssumption, FileNumbers DEF IInv, Counts, CreateStart, Enters, disk
<1>2. CallsTyped'
  BY DEF IInv, CallsTyped, CreateStart, Enters, disk
<1>3. Owned'
  BY DEF IInv, Owned, CreateStart, Enters, disk
<1>4. IdentifierLast'
  BY DEF IInv, IdentifierLast, CreateStart, Enters, disk
<1>5. Progress'
  <2>1. stage' = "open" /\ next' = Header /\ region' = [f \in Files |-> None] /\ ~open'
        /\ call' \in {"create", "load"}
    BY DEF CreateStart, Enters, disk
  <2>2. call' = "create" => creates' > 0
    BY CountsAssumption DEF CreateStart, Enters, disk, IInv, Counts
  <2>3. Header <= Arena
    BY DEF Header, Arena
  <2> QED
    BY <2>1, <2>2, <2>3, Calls DEF Progress
<1>6. Initialised'
  BY Calls DEF IInv, Initialised, CallsTyped, CreateStart, Enters, disk
<1>7. Tracked'
  <2>1. region' = region /\ UNCHANGED table
    BY Entering DEF CreateStart, Enters, disk
  <2> QED
    BY <2>1 DEF IInv, Tracked
<1>8. Mapped'
  <2>1. stage' = "open" /\ next' = 1
    BY DEF CreateStart, Enters, disk, Header
  <2>2. \A f \in Files : ~(f < next')
    BY <2>1 DEF Files
  <2> QED
    BY <2>1, <2>2 DEF Mapped
<1> QED
  BY <1>1, <1>2, <1>3, <1>4, <1>5, <1>6, <1>7, <1>8 DEF IInv

LEMMA ArenaInitIInv == IInv /\ ArenaInit => IInv'
<1> SUFFICES ASSUME IInv, ArenaInit PROVE IInv'
  OBVIOUS
<1>1. Counts'
  <2>1. Arena \in Files /\ region[Arena] # None /\ creates > 0
    BY FileNumbers, Calls DEF IInv, Progress, CallsTyped, ArenaInit, bounds
  <2>2. written' \in [Files -> 0..MaxCreates]
    BY <2>1, Writing DEF ArenaInit, bounds
  <2> QED
    BY <2>2 DEF IInv, Counts, ArenaInit, bounds
<1>2. CallsTyped'
  BY DEF IInv, CallsTyped, ArenaInit, bounds
<1>3. Owned'
  BY DEF IInv, Owned, ArenaInit, bounds
<1>4. IdentifierLast'
  <2>1. Arena \in Files /\ region[Arena] # None /\ creates > 0
    BY FileNumbers, Calls DEF IInv, Progress, CallsTyped, ArenaInit, bounds
  <2> QED
    BY <2>1, Writing DEF ArenaInit, bounds
<1>5. Progress'
  BY Calls DEF IInv, Progress, CallsTyped, ArenaInit, bounds
<1>6. Initialised'
  <2>1. Arena \in Files /\ region[Arena] # None /\ creates > 0
    BY FileNumbers, Calls DEF IInv, Progress, CallsTyped, ArenaInit, bounds
  <2>2. /\ written'[Arena] > 0 /\ \A g \in Files : written[g] > 0 => written'[g] > 0
        /\ \A g \in Files : written'[g] > 0 \/ region'[g] # None => g \in exists'
    BY <2>1, Writing DEF ArenaInit, bounds
  <2> QED
    BY <2>2, FileNumbers, Calls DEF IInv, Initialised, ArenaInit, bounds
<1>7. Tracked'
  BY DEF IInv, Tracked, ArenaInit, bounds
<1>8. Mapped'
  BY Calls DEF IInv, Mapped, FreeDescriptors, CallsTyped, ArenaInit, bounds
<1> QED
  BY <1>1, <1>2, <1>3, <1>4, <1>5, <1>6, <1>7, <1>8 DEF IInv

LEMMA WriteHeaderIInv == IInv /\ WriteHeader => IInv'
<1> SUFFICES ASSUME IInv, WriteHeader PROVE IInv'
  OBVIOUS
<1>1. Counts'
  <2>1. Header \in Files /\ region[Header] # None /\ creates > 0
    BY FileNumbers, Calls DEF IInv, Progress, CallsTyped, WriteHeader, bounds
  <2>2. written' \in [Files -> 0..MaxCreates]
    BY <2>1, Writing DEF WriteHeader, bounds
  <2>3. nextFree' \in 0..MaxRecords
    <3>1. nextFree' = 0
      BY DEF WriteHeader
    <3> QED
      BY <3>1, CountsAssumption
  <2> QED
    BY <2>2, <2>3 DEF IInv, Counts, WriteHeader, bounds
<1>2. CallsTyped'
  BY DEF IInv, CallsTyped, WriteHeader, bounds
<1>3. Owned'
  BY DEF IInv, Owned, WriteHeader, bounds
<1>4. IdentifierLast'
  <2>1. Header \in Files /\ region[Header] # None /\ creates > 0
    BY FileNumbers, Calls DEF IInv, Progress, CallsTyped, WriteHeader, bounds
  <2> QED
    BY <2>1, Writing DEF WriteHeader, bounds
<1>5. Progress'
  BY Calls DEF IInv, Progress, CallsTyped, WriteHeader, bounds
<1>6. Initialised'
  <2>1. Header \in Files /\ region[Header] # None /\ creates > 0
    BY FileNumbers, Calls DEF IInv, Progress, CallsTyped, WriteHeader, bounds
  <2>2. /\ written'[Header] > 0 /\ \A g \in Files : written[g] > 0 => written'[g] > 0
        /\ \A g \in Files : written'[g] > 0 \/ region'[g] # None => g \in exists'
    BY <2>1, Writing DEF WriteHeader, bounds
  <2> QED
    BY <2>2, FileNumbers, Calls DEF IInv, Initialised, WriteHeader, bounds
<1>7. Tracked'
  BY DEF IInv, Tracked, WriteHeader, bounds
<1>8. Mapped'
  BY Calls DEF IInv, Mapped, FreeDescriptors, CallsTyped, WriteHeader, bounds
<1> QED
  BY <1>1, <1>2, <1>3, <1>4, <1>5, <1>6, <1>7, <1>8 DEF IInv

LEMMA IndexInitIInv == IInv /\ IndexInit => IInv'
<1> SUFFICES ASSUME IInv, IndexInit PROVE IInv'
  OBVIOUS
<1>1. Counts'
  <2> DEFINE f == Min({j \in Indexes : written[j] # creates})
  <2>1. f \in Files /\ region[f] # None /\ creates > 0
    <3>1. f \in Indexes
      <4>1. {j \in Indexes : written[j] # creates} \in SUBSET Nat
        BY FileNumbers
      <4>2. {j \in Indexes : written[j] # creates} # {}
        BY DEF IndexInit
      <4> QED
        BY <4>1, <4>2, MinIsIn
    <3> QED
      BY <3>1, FileNumbers, Calls DEF IInv, Progress, CallsTyped, IndexInit, process, progress, bounds
  <2>2. written' = [written EXCEPT ![f] = creates] /\ UNCHANGED <<exists, identified, region>>
    BY DEF IndexInit, process, progress, bounds
  <2> HIDE DEF f
  <2>3. written' \in [Files -> 0..MaxCreates]
    BY <2>1, <2>2, Writing
  <2> QED
    BY <2>3 DEF IInv, Counts, IndexInit, process, progress, bounds
<1>2. CallsTyped'
  BY DEF IInv, CallsTyped, IndexInit, process, progress, bounds
<1>3. Owned'
  BY DEF IInv, Owned, IndexInit, process, progress, bounds
<1>4. IdentifierLast'
  <2> DEFINE f == Min({j \in Indexes : written[j] # creates})
  <2>1. f \in Files /\ region[f] # None /\ creates > 0
    <3>1. f \in Indexes
      <4>1. {j \in Indexes : written[j] # creates} \in SUBSET Nat
        BY FileNumbers
      <4>2. {j \in Indexes : written[j] # creates} # {}
        BY DEF IndexInit
      <4> QED
        BY <4>1, <4>2, MinIsIn
    <3> QED
      BY <3>1, FileNumbers, Calls DEF IInv, Progress, CallsTyped, IndexInit, process, progress, bounds
  <2>2. written' = [written EXCEPT ![f] = creates] /\ UNCHANGED <<exists, identified, region>>
    BY DEF IndexInit, process, progress, bounds
  <2> HIDE DEF f
  <2> QED
    BY <2>1, <2>2, Writing
<1>5. Progress'
  BY Calls DEF IInv, Progress, CallsTyped, IndexInit, process, progress, bounds
<1>6. Initialised'
  <2> DEFINE f == Min({j \in Indexes : written[j] # creates})
  <2>1. f \in Files /\ region[f] # None /\ creates > 0
    <3>1. f \in Indexes
      <4>1. {j \in Indexes : written[j] # creates} \in SUBSET Nat
        BY FileNumbers
      <4>2. {j \in Indexes : written[j] # creates} # {}
        BY DEF IndexInit
      <4> QED
        BY <4>1, <4>2, MinIsIn
    <3> QED
      BY <3>1, FileNumbers, Calls DEF IInv, Progress, CallsTyped, IndexInit, process, progress, bounds
  <2>2. written' = [written EXCEPT ![f] = creates] /\ UNCHANGED <<exists, identified, region>>
    BY DEF IndexInit, process, progress, bounds
  <2> HIDE DEF f
  <2>3. /\ \A g \in Files : written[g] > 0 => written'[g] > 0
        /\ \A g \in Files : written'[g] > 0 \/ region'[g] # None => g \in exists'
    BY <2>1, <2>2, Writing
  <2> QED
    BY <2>3, FileNumbers DEF IInv, Initialised, IndexInit, process, progress, bounds
<1>7. Tracked'
  BY DEF IInv, Tracked, IndexInit, process, progress, bounds
<1>8. Mapped'
  BY Calls DEF IInv, Mapped, FreeDescriptors, CallsTyped, IndexInit, process, progress, bounds
<1> QED
  BY <1>1, <1>2, <1>3, <1>4, <1>5, <1>6, <1>7, <1>8 DEF IInv

LEMMA WriteIdentifierIInv == IInv /\ WriteIdentifier => IInv'
<1> SUFFICES ASSUME IInv, WriteIdentifier PROVE IInv'
  OBVIOUS
<1>1. Counts'
  BY CountsAssumption, FileNumbers DEF IInv, Counts, WriteIdentifier, Returns, bounds
<1>2. CallsTyped'
  BY DEF IInv, CallsTyped, WriteIdentifier, Returns, bounds
<1>3. Owned'
  BY DEF IInv, Owned, WriteIdentifier, Returns, bounds
<1>4. IdentifierLast'
  <2>1. creates > 0 /\ written[Arena] > 0 /\ written[Header] > 0
    BY Calls DEF IInv, Progress, CallsTyped, Initialised, WriteIdentifier, Returns, bounds
  <2>2. \A f \in {Header, Arena} \cup Indexes : written[f] > 0
    BY <2>1 DEF WriteIdentifier, Returns, bounds
  <2>3. \A f \in {Header, Arena} \cup Indexes : f \in exists
    BY <2>2, FileNumbers DEF IInv, Initialised
  <2> QED
    BY <2>2, <2>3 DEF IdentifierLast, WriteIdentifier, Returns, bounds
<1>5. Progress'
  BY Calls DEF IInv, Progress, CallsTyped, WriteIdentifier, Returns, bounds
<1>6. Initialised'
  BY Calls DEF IInv, Initialised, CallsTyped, WriteIdentifier, Returns, bounds
<1>7. Tracked'
  BY DEF IInv, Tracked, WriteIdentifier, Returns, bounds
<1>8. Mapped'
  <2>1. call # None /\ stage = "index init"
    BY Calls DEF IInv, Progress, WriteIdentifier, Returns, bounds
  <2>2. failures = 0 /\ FreeDescriptors # {} => \A f \in Files : region[f] # None
    BY <2>1 DEF IInv, Mapped
  <2>3. UNCHANGED <<failures, table, region>>
    BY DEF WriteIdentifier, Returns, bounds
  <2> QED
    BY <2>2, <2>3 DEF Mapped, FreeDescriptors
<1> QED
  BY <1>1, <1>2, <1>3, <1>4, <1>5, <1>6, <1>7, <1>8 DEF IInv

LEMMA LoadStartIInv == IInv /\ LoadStart => IInv'
<1> SUFFICES ASSUME IInv, LoadStart PROVE IInv'
  OBVIOUS
<1>1. Counts'
  BY CountsAssumption, FileNumbers DEF IInv, Counts, LoadStart, Enters, disk, bounds
<1>2. CallsTyped'
  BY DEF IInv, CallsTyped, LoadStart, Enters, disk, bounds
<1>3. Owned'
  BY DEF IInv, Owned, LoadStart, Enters, disk, bounds
<1>4. IdentifierLast'
  BY DEF IInv, IdentifierLast, LoadStart, Enters, disk, bounds
<1>5. Progress'
  <2>1. stage' = "open" /\ next' = Header /\ region' = [f \in Files |-> None] /\ ~open'
        /\ call' \in {"create", "load"}
    BY DEF LoadStart, Enters, disk, bounds
  <2>2. call' = "create" => creates' > 0
    BY CountsAssumption DEF LoadStart, Enters, disk, bounds, IInv, Counts
  <2>3. Header <= Arena
    BY DEF Header, Arena
  <2> QED
    BY <2>1, <2>2, <2>3, Calls DEF Progress
<1>6. Initialised'
  BY Calls DEF IInv, Initialised, CallsTyped, LoadStart, Enters, disk, bounds
<1>7. Tracked'
  <2>1. region' = region /\ UNCHANGED table
    BY Entering DEF LoadStart, Enters, disk, bounds
  <2> QED
    BY <2>1 DEF IInv, Tracked
<1>8. Mapped'
  <2>1. stage' = "open" /\ next' = 1
    BY DEF LoadStart, Enters, disk, bounds, Header
  <2>2. \A f \in Files : ~(f < next')
    BY <2>1 DEF Files
  <2> QED
    BY <2>1, <2>2 DEF Mapped
<1> QED
  BY <1>1, <1>2, <1>3, <1>4, <1>5, <1>6, <1>7, <1>8 DEF IInv

LEMMA LoadUnidentifiedIInv == IInv /\ LoadUnidentified => IInv'
<1> SUFFICES ASSUME IInv, LoadUnidentified PROVE IInv'
  OBVIOUS
<1>1. Counts'
  BY CountsAssumption, FileNumbers DEF IInv, Counts, LoadUnidentified, progress, bounds
<1>2. CallsTyped'
  BY DEF IInv, CallsTyped, LoadUnidentified, progress, bounds
<1>3. Owned'
  <2>1. Min(FreeDescriptors) \in Descriptors /\ table[Min(FreeDescriptors)] = None
    BY FreeDescriptor DEF LoadUnidentified, progress, bounds
  <2>2. \A f \in Files : region[f] = None
    BY DEF IInv, Progress, LoadUnidentified, progress, bounds
  <2>3. table' \in [Descriptors -> Files \cup {Stdin, None}]
    BY <2>1, FileNumbers DEF IInv, Owned, LoadUnidentified, progress, bounds
  <2> QED
    BY <2>2, <2>3 DEF IInv, Owned, LoadUnidentified, progress, bounds
<1>4. IdentifierLast'
  BY DEF IInv, IdentifierLast, LoadUnidentified, progress, bounds
<1>5. Progress'
  BY Calls DEF IInv, Progress, CallsTyped, LoadUnidentified, progress, bounds
<1>6. Initialised'
  BY Calls DEF IInv, Initialised, CallsTyped, LoadUnidentified, progress, bounds
<1>7. Tracked'
  BY DEF IInv, Tracked, LoadUnidentified, progress, bounds
<1>8. Mapped'
  BY Calls DEF IInv, Mapped, FreeDescriptors, CallsTyped, LoadUnidentified, progress, bounds
<1> QED
  BY <1>1, <1>2, <1>3, <1>4, <1>5, <1>6, <1>7, <1>8 DEF IInv

LEMMA LoadRefusedIInv == IInv /\ LoadRefused => IInv'
<1> SUFFICES ASSUME IInv, LoadRefused PROVE IInv'
  OBVIOUS
<1>1. Counts'
  <2>1. exists' \subseteq Files
    BY FileNumbers DEF IInv, Counts, LoadRefused, OpenFails, progress
  <2>2. failures' \in 0..MaxFailures
    BY CountsAssumption DEF IInv, Counts, LoadRefused, OpenFails, progress
  <2> QED
    BY <2>1, <2>2 DEF IInv, Counts, LoadRefused, OpenFails, progress
<1>2. CallsTyped'
  BY DEF IInv, CallsTyped, LoadRefused, OpenFails, progress
<1>3. Owned'
  BY DEF IInv, Owned, LoadRefused, OpenFails, progress
<1>4. IdentifierLast'
  BY DEF IInv, IdentifierLast, LoadRefused, OpenFails, progress
<1>5. Progress'
  BY Calls DEF IInv, Progress, CallsTyped, LoadRefused, OpenFails, progress
<1>6. Initialised'
  BY Calls DEF IInv, Initialised, CallsTyped, LoadRefused, OpenFails, progress
<1>7. Tracked'
  BY DEF IInv, Tracked, LoadRefused, OpenFails, progress
<1>8. Mapped'
  BY Calls DEF IInv, Mapped, FreeDescriptors, CallsTyped, LoadRefused, OpenFails, progress
<1> QED
  BY <1>1, <1>2, <1>3, <1>4, <1>5, <1>6, <1>7, <1>8 DEF IInv

LEMMA PutIInv == IInv /\ Put => IInv'
<1> SUFFICES ASSUME IInv, Put PROVE IInv'
  OBVIOUS
<1>1. Counts'
  BY CountsAssumption, FileNumbers DEF IInv, Counts, Put, process, progress, bounds
<1>2. CallsTyped'
  BY DEF IInv, CallsTyped, Put, process, progress, bounds
<1>3. Owned'
  BY DEF IInv, Owned, Put, process, progress, bounds
<1>4. IdentifierLast'
  BY DEF IInv, IdentifierLast, Put, process, progress, bounds
<1>5. Progress'
  BY Calls DEF IInv, Progress, CallsTyped, Put, process, progress, bounds
<1>6. Initialised'
  BY Calls DEF IInv, Initialised, CallsTyped, Put, process, progress, bounds
<1>7. Tracked'
  BY DEF IInv, Tracked, Put, process, progress, bounds
<1>8. Mapped'
  BY Calls DEF IInv, Mapped, FreeDescriptors, CallsTyped, Put, process, progress, bounds
<1> QED
  BY <1>1, <1>2, <1>3, <1>4, <1>5, <1>6, <1>7, <1>8 DEF IInv

LEMMA FreeIInv == IInv /\ Free => IInv'
<1> SUFFICES ASSUME IInv, Free PROVE IInv'
  OBVIOUS
<1>1. Counts'
  BY CountsAssumption, FileNumbers DEF IInv, Counts, Free, disk, progress, bounds
<1>2. CallsTyped'
  BY DEF IInv, CallsTyped, Free, disk, progress, bounds
<1>3. Owned'
  BY DEF IInv, Owned, Free, disk, progress, bounds
<1>4. IdentifierLast'
  BY DEF IInv, IdentifierLast, Free, disk, progress, bounds
<1>5. Progress'
  BY Calls DEF IInv, Progress, CallsTyped, Free, disk, progress, bounds
<1>6. Initialised'
  BY Calls DEF IInv, Initialised, CallsTyped, Free, disk, progress, bounds
<1>7. Tracked'
  BY DEF IInv, Tracked, Free, disk, progress, bounds
<1>8. Mapped'
  <2>1. call' = None /\ ~open'
    BY DEF IInv, Progress, Free, disk, progress, bounds
  <2> QED
    BY <2>1 DEF Mapped
<1> QED
  BY <1>1, <1>2, <1>3, <1>4, <1>5, <1>6, <1>7, <1>8 DEF IInv

(* An open, whether it fails or not, changes one region at most, and what  *)
(* it leaves unmapped it leaves with a failure or with a full table.       *)
LEMMA Attempted ==
  ASSUME IInv, NEW f \in Files, region[f] = None, Opened(f) \/ OpenFails(f),
         UNCHANGED <<identified, written>>
  PROVE  /\ Owned' /\ Tracked' /\ IdentifierLast'
         /\ exists' \subseteq Files /\ failures' \in 0..MaxFailures
         /\ \A g \in Files : written'[g] > 0 \/ region'[g] # None => g \in exists'
         /\ \A g \in Files \ {f} : region'[g] = region[g]
         /\ failures' = 0 /\ FreeDescriptors' # {} =>
              region'[f] # None /\ failures = 0 /\ FreeDescriptors # {}
<1>1. failures \in 0..MaxFailures /\ exists \subseteq Files
  BY DEF IInv, Counts
<1>2. CASE Opened(f)
  <2>1. /\ Owned' /\ Tracked' /\ region'[f] # None /\ FreeDescriptors # {}
        /\ \A g \in Files \ {f} : region'[g] = region[g]
        /\ exists' = exists \cup {f} /\ exists' \subseteq Files
    BY <1>2, OpenedFacts DEF Owned
  <2>2. failures' = failures
    BY <1>2 DEF Opened
  <2>3. IdentifierLast'
    BY <2>1 DEF IInv, IdentifierLast
  <2>4. \A g \in Files : written'[g] > 0 \/ region'[g] # None => g \in exists'
    BY <2>1 DEF IInv, Initialised
  <2> QED
    BY <1>1, <2>1, <2>2, <2>3, <2>4
<1>3. CASE OpenFails(f)
  <2>1. UNCHANGED <<region, table>> /\ exists' \in {exists, exists \cup {f}}
    BY <1>3 DEF OpenFails
  <2>2. \/ FreeDescriptors = {} /\ failures' = failures
        \/ failures < MaxFailures /\ failures' = failures + 1
    BY <1>3 DEF OpenFails
  <2>3. Owned' /\ Tracked'
    BY <2>1 DEF IInv, Owned, Tracked
  <2>4. IdentifierLast' /\ \A g \in Files : written'[g] > 0 \/ region'[g] # None => g \in exists'
    BY <2>1 DEF IInv, Initialised, IdentifierLast
  <2>5. failures' \in 0..MaxFailures /\ (failures' = 0 => FreeDescriptors = {})
    BY <1>1, <2>2, CountsAssumption
  <2>6. FreeDescriptors' = FreeDescriptors
    BY <2>1 DEF FreeDescriptors
  <2> QED
    BY <1>1, <2>1, <2>3, <2>4, <2>5, <2>6
<1> QED
  BY <1>2, <1>3

LEMMA OpenNextIInv == IInv /\ OpenNext => IInv'
<1> SUFFICES ASSUME IInv, OpenNext PROVE IInv'
  OBVIOUS
<1>1. /\ stage = "open" /\ next <= Arena
      /\ Opened(next) \/ OpenFails(next)
      /\ next' = next + 1
      /\ stage' = IF next = Arena THEN IF call = "create" THEN "arena" ELSE "indexes" ELSE stage
      /\ UNCHANGED <<identified, written, nextFree, call, open, creates, crashes>>
  BY DEF OpenNext
<1>2. next \in Files /\ region[next] = None /\ call \in {"create", "load"} /\ ~open
  <2>1. next \in Files /\ next >= next
    BY FileNumbers DEF IInv, Counts
  <2>2. region[next] = None
    BY <1>1, <2>1 DEF IInv, Progress
  <2>3. call # None
    BY <1>1, Calls DEF IInv, Progress
  <2>4. call \in {"create", "load"} /\ ~open
    BY <2>3 DEF IInv, Progress, CallsTyped
  <2> QED
    BY <2>1, <2>2, <2>4
<1>3. next \in Nat /\ next' \in Files
  <2>1. next \in Nat /\ next <= 6 /\ next' = next + 1
    BY <1>1, <1>2, FileNumbers DEF Arena
  <2>2. IndexCount \in Nat /\ IndexCount >= 1
    BY CountsAssumption
  <2> QED
    BY <2>1, <2>2 DEF Files
<1>4. /\ Owned' /\ Tracked' /\ IdentifierLast'
      /\ exists' \subseteq Files /\ failures' \in 0..MaxFailures
      /\ \A g \in Files : written'[g] > 0 \/ region'[g] # None => g \in exists'
      /\ \A g \in Files \ {next} : region'[g] = region[g]
      /\ failures' = 0 /\ FreeDescriptors' # {} =>
           region'[next] # None /\ failures = 0 /\ FreeDescriptors # {}
  <2> HIDE DEF Owned, Tracked, IdentifierLast
  <2> QED
    BY <1>1, <1>2, Attempted
<1>5. /\ stage' \in {"open", "arena", "indexes"}
      /\ stage' = "open" => next' <= Arena
      /\ stage' \in {"arena", "indexes"} => next' > Arena
      /\ stage' = "arena" => call = "create"
  <2>1. next \in Nat /\ next <= 6 /\ next' = next + 1
    BY <1>1, <1>3 DEF Arena
  <2>2. CASE next = Arena
    <3>1. stage' = IF call = "create" THEN "arena" ELSE "indexes"
      BY <1>1, <2>2
    <3>2. next' > Arena
      BY <2>1, <2>2 DEF Arena
    <3>3. CASE call = "create"
      BY <3>1, <3>2, <3>3
    <3>4. CASE call # "create"
      BY <3>1, <3>2, <3>4
    <3> QED
      BY <3>3, <3>4
  <2>3. CASE next # Arena
    <3>1. stage' = "open"
      BY <1>1, <2>3
    <3>2. next' <= Arena
      BY <2>1, <2>3 DEF Arena
    <3> QED
      BY <3>1, <3>2
  <2> QED
    BY <2>2, <2>3
<1>6. stage' = "indexes" => call # "create"
  <2>1. CASE next = Arena /\ call = "create"
    <3>1. stage' = "arena"
      BY <1>1, <2>1
    <3> QED
      BY <3>1
  <2>2. CASE next # Arena
    <3>1. stage' = "open"
      BY <1>1, <2>2
    <3> QED
      BY <3>1
  <2> QED
    BY <2>1, <2>2
<1>7. Progress'
  <2>1. \A f \in Files : f >= next' => region'[f] = None
    <3>1. \A f \in Files : f >= next => region[f] = None
      <4>1. stage \in {"open", "arena", "indexes"}
        BY <1>1
      <4> QED
        BY <4>1 DEF IInv, Progress
    <3>2. \A f \in Files : f >= next' => f >= next /\ f # next
      BY <1>1, <1>3, FileNumbers
    <3> QED
      BY <1>4, <3>1, <3>2
  <2>2. call' = "create" => creates' > 0
    BY <1>1 DEF IInv, Progress
  <2>3. call' = "load" => stage' \in {"open", "indexes"}
    BY <1>1, <1>5
  <2> QED
    BY <1>1, <1>2, <1>5, <2>1, <2>2, <2>3, Calls DEF Progress
<1>8. Mapped'
  <2> SUFFICES ASSUME failures' = 0, FreeDescriptors' # {}, NEW f \in Files, f < next'
               PROVE  region'[f] # None
    BY <1>5 DEF Mapped
  <2>1. CASE f = next
    BY <2>1, <1>4
  <2>2. CASE f # next
    <3>1. f < next
      BY <2>2, <1>1, <1>3, FileNumbers
    <3>2. region[f] # None
      BY <3>1, <1>1, <1>2, <1>4, Calls DEF IInv, Mapped
    <3> QED
      BY <2>2, <3>2, <1>4
  <2> QED
    BY <2>1, <2>2
<1>9. Initialised'
  BY <1>4, <1>5, <1>6, <1>1 DEF Initialised
<1>10. Counts'
  BY <1>1, <1>3, <1>4 DEF IInv, Counts
<1>11. CallsTyped'
  BY <1>1, <1>5 DEF IInv, CallsTyped
<1> QED
  BY <1>4, <1>7, <1>8, <1>9, <1>10, <1>11 DEF IInv

LEMMA OpenIndexIInv == IInv /\ OpenIndex => IInv'
<1> SUFFICES ASSUME IInv, OpenIndex PROVE IInv'
  OBVIOUS
<1> DEFINE More == Opened(next) /\ next < 6 + IndexCount /\ next' = next + 1
                   /\ UNCHANGED <<call, stage, open>>
           Last == IndexesDone /\ (OpenFails(next) \/ (Opened(next) /\ ~(next < 6 + IndexCount)))
<1>1. /\ stage = "indexes"
      /\ Opened(next) \/ OpenFails(next)
      /\ UNCHANGED <<identified, written, nextFree, creates, crashes>>
      /\ More \/ Last
  BY DEF OpenIndex
<1>2. next \in Files /\ next > Arena /\ region[next] = None
      /\ call \in {"create", "load"} /\ ~open
  <2>1. next \in Files /\ next >= next
    BY FileNumbers DEF IInv, Counts
  <2>2. region[next] = None /\ next > Arena
    BY <1>1, <2>1 DEF IInv, Progress
  <2>3. call # None
    BY <1>1, Calls DEF IInv, Progress
  <2>4. call \in {"create", "load"} /\ ~open
    BY <2>3 DEF IInv, Progress, CallsTyped
  <2> QED
    BY <2>1, <2>2, <2>4
<1>3. /\ Owned' /\ Tracked' /\ IdentifierLast'
      /\ exists' \subseteq Files /\ failures' \in 0..MaxFailures
      /\ \A g \in Files : written'[g] > 0 \/ region'[g] # None => g \in exists'
      /\ \A g \in Files \ {next} : region'[g] = region[g]
      /\ failures' = 0 /\ FreeDescriptors' # {} =>
           region'[next] # None /\ failures = 0 /\ FreeDescriptors # {}
  BY <1>1, <1>2, Attempted
<1>4. call = "create" => written'[Arena] > 0 /\ creates' > 0
  BY <1>1 DEF IInv, Initialised, Progress
<1>5. failures' = 0 /\ FreeDescriptors' # {} =>
        \A f \in Files : f <= next => region'[f] # None
  <2> SUFFICES ASSUME failures' = 0, FreeDescriptors' # {}, NEW f \in Files, f <= next
               PROVE  region'[f] # None
    OBVIOUS
  <2>1. CASE f = next
    BY <2>1, <1>3
  <2>2. CASE f # next
    <3>1. f < next
      BY <2>2, <1>2, FileNumbers
    <3>2. region[f] # None
      BY <3>1, <1>1, <1>2, <1>3, Calls DEF IInv, Mapped
    <3> QED
      BY <2>2, <3>2, <1>3
  <2> QED
    BY <2>1, <2>2
<1>6. CASE More
  <2>1. next' = next + 1 /\ UNCHANGED <<call, stage, open>>
    BY <1>6
  <2>2. next' \in Files /\ next' > Arena
    <3>1. next \in Nat /\ next > 6 /\ IndexCount \in Nat /\ next < 6 + IndexCount
      BY <1>2, <1>6, FileNumbers, CountsAssumption DEF Arena
    <3> QED
      BY <2>1, <3>1 DEF Files, Arena
  <2>3. \A f \in Files : f >= next' => region'[f] = None
    <3>1. \A f \in Files : f >= next => region[f] = None
      BY <1>1 DEF IInv, Progress
    <3>2. \A f \in Files : f >= next' => f >= next /\ f # next
      BY <2>1, <1>2, FileNumbers
    <3> QED
      BY <1>3, <3>1, <3>2
  <2>4. Progress'
    BY <1>1, <1>2, <1>4, <2>1, <2>2, <2>3, Calls DEF Progress
  <2>5. Mapped'
    <3>1. \A f \in Files : f < next' => f <= next
      BY <2>1, <1>2, FileNumbers
    <3> QED
      BY <3>1, <1>5, <1>1, <2>1 DEF Mapped
  <2>6. Initialised'
    BY <1>1, <1>3, <1>4, <2>1 DEF Initialised
  <2>7. Counts' /\ CallsTyped'
    BY <1>1, <1>3, <2>1, <2>2 DEF IInv, Counts, CallsTyped
  <2> QED
    BY <1>3, <2>4, <2>5, <2>6, <2>7 DEF IInv
<1>7. CASE Last
  <2>1. \/ /\ call = "create" /\ stage' = "header" /\ UNCHANGED <<call, next, open>>
        \/ /\ call = "load" /\ call' = None /\ stage' = None /\ next' = Header /\ open' = TRUE
    BY <1>2, <1>7 DEF IndexesDone, Returns
  <2>2. failures' = 0 /\ FreeDescriptors' # {} => \A f \in Files : region'[f] # None
    <3>1. CASE OpenFails(next)
      <4>1. FreeDescriptors' = FreeDescriptors
        BY <3>1 DEF OpenFails, FreeDescriptors
      <4>2. FreeDescriptors = {} \/ failures' = failures + 1
        BY <3>1 DEF OpenFails
      <4>3. failures + 1 # 0
        BY CountsAssumption DEF IInv, Counts
      <4> QED
        BY <4>1, <4>2, <4>3
    <3>2. CASE ~(next < 6 + IndexCount)
      <4>1. \A f \in Files : f <= next
        BY <3>2, <1>2, CountsAssumption DEF Files
      <4> QED
        BY <4>1, <1>5
    <3> QED
      BY <1>7, <3>1, <3>2
  <2>3. Mapped'
    BY <2>2 DEF Mapped
  <2>4. Counts' /\ CallsTyped'
    BY <1>1, <1>3, <2>1, FileNumbers DEF IInv, Counts, CallsTyped
  <2>5. Initialised'
    BY <1>3, <1>4, <2>1, Calls DEF Initialised
  <2>6. Progress'
    <3>1. CASE call' = "create" /\ stage' = "header" /\ ~open'
      BY <1>1, <1>4, <2>1, <3>1, Calls DEF Progress
    <3>2. CASE call' = None /\ stage' = None /\ open' = TRUE
      BY <3>2, Calls DEF Progress
    <3>3. CASE call = "create" /\ stage' = "header" /\ UNCHANGED <<call, next, open>>
      BY <1>2, <3>1, <3>3, Zenon
    <3>4. CASE call' = None /\ stage' = None /\ next' = Header /\ open' = TRUE
      BY <3>2, <3>4, Zenon
    <3> QED
      BY <2>1, <3>3, <3>4, Zenon
  <2> QED
    BY <1>3, <2>3, <2>4, <2>5, <2>6 DEF IInv
<1> QED
  BY <1>1, <1>6, <1>7

(* A process that is started again has nothing but its standard input.     *)
LEMMA RestartsIInv ==
  ASSUME IInv, Restarts,
         UNCHANGED <<exists, identified, written, nextFree, creates, failures>>,
         crashes' \in 0..MaxCrashes
  PROVE  IInv'
<1> USE DEF Restarts
<1>1. \A f \in Files : region'[f] = None
  OBVIOUS
<1>2. Counts' /\ CallsTyped'
  BY FileNumbers DEF IInv, Counts, CallsTyped
<1>3. Owned'
  <2>1. table' \in [Descriptors -> Files \cup {Stdin, None}]
    BY DEF Started
  <2> QED
    BY <1>1, <2>1 DEF Owned
<1>4. IdentifierLast' /\ Initialised'
  BY <1>1, Calls DEF IInv, IdentifierLast, Initialised
<1>5. Progress' /\ Mapped'
  BY <1>1, Calls DEF Progress, Mapped
<1>6. Tracked'
  BY DEF Tracked, Started
<1> QED
  BY <1>2, <1>3, <1>4, <1>5, <1>6 DEF IInv

LEMMA NextIInv == IInv /\ [Next]_vars => IInv'
<1> SUFFICES ASSUME IInv, [Next]_vars PROVE IInv'
  OBVIOUS
<1>1. CASE CallFaults \/ PutFaults
  <2>1. Restarts /\ UNCHANGED <<disk, bounds>>
    BY <1>1 DEF CallFaults, PutFaults, Faults
  <2>2. crashes' \in 0..MaxCrashes
    BY <2>1 DEF IInv, Counts, bounds
  <2> QED
    BY <2>1, <2>2, RestartsIInv DEF disk, bounds
<1>2. CASE Crash
  <2>1. crashes' \in 0..MaxCrashes
    BY <1>2, CountsAssumption DEF Crash, IInv, Counts
  <2> QED
    BY <1>2, <2>1, RestartsIInv DEF Crash, disk
<1>3. CASE UNCHANGED vars
  BY <1>3 DEF vars, disk, process, progress, bounds, IInv, Counts, CallsTyped, Owned,
              IdentifierLast, Progress, Initialised, Tracked, Mapped, FreeDescriptors
<1> QED
  BY <1>1, <1>2, <1>3, CreateStartIInv, OpenNextIInv, ArenaInitIInv, OpenIndexIInv,
     WriteHeaderIInv, IndexInitIInv, WriteIdentifierIInv, LoadStartIInv,
     LoadUnidentifiedIInv, LoadRefusedIInv, PutIInv, FreeIInv DEF Next
------------------------------------------------------------------------------
LEMMA IInvAlways == Spec => []IInv
<1>1. Init => IInv
  BY InitIInv
<1>2. IInv /\ [Next]_vars => IInv'
  BY NextIInv
<1> QED
  BY <1>1, <1>2, PTL DEF Spec

(* Whatever dies or fails, a load accepts no directory before the header,  *)
(* the arena and every index have been initialised (mos_core.c:723).       *)
THEOREM AcceptedIsInitialised == Spec => []IdentifierLast
<1>1. IInv => IdentifierLast
  BY DEF IInv
<1> QED
  BY <1>1, IInvAlways, PTL

(* Each mapped region has a descriptor of its own, open under its own file *)
(* (mos_memory.c:87), however many storages were created, loaded and freed. *)
THEOREM RegionsOwnDescriptors == Spec => []DescriptorsOwned
<1>1. IInv => DescriptorsOwned
  BY DEF IInv, Counts, CallsTyped, Owned, DescriptorsOwned, TypeOK
<1> QED
  BY <1>1, IInvAlways, PTL

(* A process without a storage has only arenas and refused headers open    *)
(* (mos_core.c:734-742).                                                   *)
THEOREM FreeLeaksArenaOnly == Spec => []FreeCloses
<1>1. IInv => FreeCloses
  <2> SUFFICES ASSUME IInv, call = None, ~open, NEW d \in Descriptors
               PROVE  table[d] \in {None, Stdin, Header, Arena}
    BY DEF FreeCloses
  <2>1. \A f \in Files : region[f] = None
    BY DEF IInv, Progress
  <2>2. d # None
    BY FileNumbers
  <2> QED
    BY <2>1, <2>2 DEF IInv, Tracked
<1> QED
  BY <1>1, IInvAlways, PTL

(* While no open failed, and descriptors are left, no call stores through  *)
(* a region that is not mapped (mos_core.c:577, 675).                      *)
THEOREM NoFaultWithoutFailure == Spec => []FaultsOnlyAfterFailure
<1>1. IInv => FaultsOnlyAfterFailure
  <2> HAVE IInv
  <2> SUFFICES ASSUME failures = 0, FreeDescriptors # {}, CallFaulting \/ PutFaulting
               PROVE  FALSE
    <3>1. failures \in Nat
      BY CountsAssumption DEF IInv, Counts
    <3> QED
      BY <3>1 DEF FaultsOnlyAfterFailure
  <2>1. CASE PutFaulting
    <3>1. open /\ call = None /\ stage = None
      BY <2>1, Calls DEF PutFaulting, IInv, Progress
    <3>2. PutRegions \cup {Arena} \subseteq Files
      BY CountsAssumption DEF PutRegions, Files, Header, Valid, Records, Silo, Arena, Indexes
    <3> QED
      BY <2>1, <3>1, <3>2, Calls DEF PutFaulting, IInv, Mapped
  <2>2. CASE CallFaulting
    <3>1. stage # None /\ call # None
      BY <2>2, Calls DEF CallFaulting, IInv, Progress
    <3>2. \A f \in Files : (stage \in {"open", "arena", "indexes"} => f < next) => region[f] # None
      BY <3>1 DEF IInv, Mapped
    <3>3. stage \in {"arena", "indexes"} => Header < next /\ Arena < next
      BY FileNumbers DEF IInv, Progress, Counts, Header, Arena
    <3>4. stage \in {"arena", "indexes"} => region[Header] # None /\ region[Arena] # None
      BY <3>2, <3>3, FileNumbers
    <3>5. stage \in {"header", "index init"} => \A f \in Files : region[f] # None
      BY <3>2
    <3>6. /\ stage = "index init" /\ \E i \in Indexes : written[i] # creates
          /\ region[Min({j \in Indexes : written[j] # creates})] = None
      BY <2>2, <3>4, <3>5, FileNumbers DEF CallFaulting
    <3>7. Min({j \in Indexes : written[j] # creates}) \in Indexes
      <4>1. {j \in Indexes : written[j] # creates} \in SUBSET Nat
        BY FileNumbers
      <4>2. {j \in Indexes : written[j] # creates} # {}
        BY <3>6
      <4> QED
        BY <4>1, <4>2, MinIsIn
    <3> QED
      BY <3>5, <3>6, <3>7, FileNumbers
  <2> QED
    BY <2>1, <2>2
<1> QED
  BY <1>1, IInvAlways, PTL
=============================================================================
