---------------------------- MODULE DevicesProofs ----------------------------
(***************************************************************************)
(* Theorems about the walk to the disk drives, on every machine, for every *)
(* number of devices and functions.                                        *)
(***************************************************************************)
EXTENDS Devices, TLAPS

-----------------------------------------------------------------------------
(* What machines are made of *)

Places == [bus : Nat, device : Nat, function : Nat]

LEMMA MachineParts ==
  ASSUME TypeOK
  PROVE  /\ machine.tags \in Seq(TagKinds) /\ machine.tables \in Seq({"MCFG", "other"})
         /\ machine.mcfg \in Seq(Configs) /\ machine.low \in Seq(Configs)
         /\ machine.memory \in [0 .. Word - 1 -> Headers]
BY DEF TypeOK, IsMachine

LEMMA Sizes == Word \in Nat \ {0} /\ DEVICES \in Nat \ {0} /\ FUNCTIONS \in Nat \ {0}
BY DevicesAssumption

(* The entries that are walked are configurations. *)
LEMMA EntryParts ==
  ASSUME TypeOK, NEW i \in DOMAIN mcfg
  PROVE  /\ mcfg[i] \in Configs /\ i \in Nat \ {0} /\ i <= Len(mcfg)
         /\ mcfg[i].base \in Nat /\ mcfg[i].start \in Nat /\ mcfg[i].end \in Nat
<1>1. mcfg \in Seq(Configs)
  <2>1. <<>> \in Seq(Configs)
    OBVIOUS
  <2> QED BY <2>1, MachineParts DEF TypeOK
<1>2. mcfg[i] \in Configs /\ i \in Nat \ {0} /\ i <= Len(mcfg)
  BY <1>1
<1> QED BY <1>2 DEF Configs

(* A position is a place, and its page a natural number. *)
LEMMA PositionParts ==
  ASSUME NEW config \in Configs, NEW a \in Positions(config)
  PROVE  /\ a \in Places /\ a.bus \in config.start .. config.end - 1
         /\ a.device \in 0 .. DEVICES - 1 /\ a.function \in 0 .. FUNCTIONS - 1
<1>1. config.start \in Nat /\ config.end \in Nat
  BY DEF Configs
<1>2. /\ a.bus \in config.start .. config.end - 1
      /\ a.device \in 0 .. DEVICES - 1 /\ a.function \in 0 .. FUNCTIONS - 1
  BY DEF Positions
<1>3. a.bus \in Nat /\ a.device \in Nat /\ a.function \in Nat
  BY <1>1, <1>2, Sizes
<1>4. a = [bus |-> a.bus, device |-> a.device, function |-> a.function]
  BY DEF Positions
<1> QED BY <1>2, <1>3, <1>4 DEF Places

LEMMA AddressNat ==
  ASSUME NEW config \in Configs, NEW a \in Places
  PROVE  Address(config, a) \in Nat
<1>1. config.base \in Nat /\ a.bus \in Nat /\ a.device \in Nat /\ a.function \in Nat
  BY DEF Configs, Places
<1>2. DEVICES \in Nat /\ FUNCTIONS \in Nat
  BY Sizes
<1>3. a.bus * DEVICES + a.device \in Nat
  BY <1>1, <1>2
<1>4. (a.bus * DEVICES + a.device) * FUNCTIONS \in Nat
  BY <1>2, <1>3
<1> QED BY <1>1, <1>4 DEF Address

(* A number in mixed radix has one quotient and one rest. *)
Radix(w, j, r) == j * w + r

LEMMA MixedRadix ==
  ASSUME NEW w \in Nat \ {0}, NEW j \in Nat, NEW k \in Nat,
         NEW r \in 0 .. w - 1, NEW t \in 0 .. w - 1, Radix(w, j, r) = Radix(w, k, t)
  PROVE  j = k /\ r = t
<1> USE DEF Radix
<1>1. ~(j > k)
  <2> SUFFICES ASSUME j >= k + 1 PROVE FALSE
    OBVIOUS
  <2>1. (j - k) * w >= w
    BY SMT
  <2>2. (j - k) * w = t - r
    BY SMT
  <2> QED BY <2>1, <2>2
<1>2. ~(k > j)
  <2> SUFFICES ASSUME k >= j + 1 PROVE FALSE
    OBVIOUS
  <2>1. (k - j) * w >= w
    BY SMT
  <2>2. (k - j) * w = r - t
    BY SMT
  <2> QED BY <2>1, <2>2
<1> QED BY <1>1, <1>2

(* Each position has a page of its own. *)
LEMMA AddressInjective ==
  ASSUME NEW config \in Configs, NEW a \in Positions(config), NEW b \in Positions(config),
         Address(config, a) = Address(config, b)
  PROVE  a.bus = b.bus /\ a.device = b.device /\ a.function = b.function
<1> DEFINE p == Radix(DEVICES, a.bus, a.device)
           q == Radix(DEVICES, b.bus, b.device)
<1>1. /\ a.device \in 0 .. DEVICES - 1 /\ a.function \in 0 .. FUNCTIONS - 1
      /\ b.device \in 0 .. DEVICES - 1 /\ b.function \in 0 .. FUNCTIONS - 1
      /\ a.bus \in Nat /\ b.bus \in Nat
  BY PositionParts DEF Places
<1>2. p \in Nat /\ q \in Nat
  BY <1>1, Sizes DEF Radix
<1>3. p * FUNCTIONS + a.function = q * FUNCTIONS + b.function
  <2>1. config.base \in Nat /\ p * FUNCTIONS \in Nat /\ q * FUNCTIONS \in Nat
    BY <1>2, Sizes DEF Configs
  <2>2. config.base + p * FUNCTIONS + a.function = config.base + q * FUNCTIONS + b.function
    BY DEF Address, Radix
  <2> HIDE DEF p, q
  <2> QED BY <1>1, <2>1, <2>2, Sizes
<1>4. p = q /\ a.function = b.function
  <2>1. Radix(FUNCTIONS, p, a.function) = Radix(FUNCTIONS, q, b.function)
    BY <1>3 DEF Radix
  <2> HIDE DEF p, q
  <2> QED BY <1>1, <1>2, <2>1, Sizes, MixedRadix
<1> QED BY <1>1, <1>4, Sizes, MixedRadix

(* The window of an entry of a machine whose windows can be reached: there a
   pointer is the page it is meant to be. *)
LEMMA WindowPages ==
  ASSUME TypeOK, Reachable, mcfg = machine.mcfg, NEW i \in DOMAIN mcfg,
         NEW a \in Positions(mcfg[i])
  PROVE  /\ Address(mcfg[i], a) \in Window(machine.mcfg[i])
         /\ Address(mcfg[i], a) % Word = Address(mcfg[i], a)
<1>1. Address(mcfg[i], a) \in Window(machine.mcfg[i])
  BY DEF Window
<1>2. Address(mcfg[i], a) \in 0 .. Word - 1
  BY <1>1 DEF Reachable
<1> QED BY <1>1, <1>2, Sizes

-----------------------------------------------------------------------------
(* Types *)

(* The driver is given pages that are mapped; a page more keeps that. *)
LEMMA FoundTypes ==
  ASSUME TypeOK, NEW p \in 0 .. Word - 1, mapped' = mapped \cup {p},
         found' \in {found, Append(found, p)}
  PROVE  mapped' \subseteq 0 .. Word - 1 /\ found' \in Seq(mapped')
<1>1. found \in Seq(mapped \cup {p}) /\ p \in mapped \cup {p}
  BY DEF TypeOK
<1>2. Append(found, p) \in Seq(mapped \cup {p})
  BY <1>1
<1> QED BY <1>1, <1>2 DEF TypeOK

(* The page at hand is one that pointers reach. *)
LEMMA PageReached ==
  ASSUME TypeOK, AtPosition, InEntry
  PROVE  Page(at) \in 0 .. Word - 1
<1>1. mcfg[pos] \in Configs /\ at \in Places
  BY EntryParts, Sizes DEF TypeOK, AtPosition, Places
<1>2. Address(mcfg[pos], at) \in Nat
  BY <1>1, AddressNat
<1> QED BY <1>2, Sizes DEF Page

LEMMA TypeStep ==
  ASSUME TypeOK, AtPosition, [Next]_vars
  PROVE  TypeOK'
<1> USE DEF TypeOK
<1>1. CASE LoadTag
  <2>1. machine.tags[pos] \in TagKinds /\ pos \in 0 .. Len(machine.tags)
    BY <1>1, MachineParts DEF LoadTag
  <2>2. info' \in [TagKinds -> 0 .. Len(machine.tags)] /\ pos' \in Nat \ {0}
    BY <1>1, <2>1 DEF LoadTag
  <2> QED BY <1>1, <2>2 DEF LoadTag, walk
<1>2. CASE AcpiInit
  BY <1>2 DEF AcpiInit, walk
<1>3. CASE FindTable
  BY <1>3 DEF FindTable
<1>4. CASE Entry
  <2>1. CASE pos > Len(mcfg)
    BY <1>4, <2>1 DEF Entry
  <2>2. CASE ~(pos > Len(mcfg))
    <3>1. pos \in DOMAIN mcfg
      BY <2>2, MachineParts
    <3>2. at' = Start(mcfg[pos].start) /\ mcfg[pos].start \in Nat
      BY <1>4, <2>2, <3>1, EntryParts DEF Entry
    <3> QED BY <1>4, <2>2, <3>2, Sizes DEF Entry, Start
  <2> QED BY <2>1, <2>2
<1>5. CASE NextEntry
  BY <1>5 DEF NextEntry, walk
<1>6. CASE EnumerateBus
  <2>1. Page(at) \in 0 .. Word - 1 /\ at.bus \in Nat
    BY <1>6, PageReached DEF EnumerateBus, InEntry
  <2>2. mapped' \subseteq 0 .. Word - 1 /\ found' \in Seq(mapped')
    BY <1>6, <2>1, FoundTypes DEF EnumerateBus, Read
  <2>3. at' \in [bus : Nat, device : 0 .. DEVICES, function : 0 .. FUNCTIONS]
    BY <1>6, <2>1, Sizes DEF EnumerateBus, Start
  <2> QED BY <1>6, <2>2, <2>3 DEF EnumerateBus, Read
<1>7. CASE NextBus
  BY <1>7, Sizes DEF NextBus, Start
<1>8. CASE EnumerateDevice
  <2>1. Page(at) \in 0 .. Word - 1
    BY <1>8, PageReached DEF EnumerateDevice, InEntry
  <2>2. mapped' \subseteq 0 .. Word - 1 /\ found' \in Seq(mapped')
    BY <1>8, <2>1, FoundTypes DEF EnumerateDevice, Read
  <2>3. at' \in [bus : Nat, device : 0 .. DEVICES, function : 0 .. FUNCTIONS]
    BY <1>8, Sizes DEF EnumerateDevice
  <2> QED BY <1>8, <2>2, <2>3 DEF EnumerateDevice, Read
<1>9. CASE NextDevice
  <2>1. at.device \in 0 .. DEVICES /\ at.device < DEVICES
    BY <1>9 DEF NextDevice, AtPosition
  <2>2. at.device + 1 \in 0 .. DEVICES /\ 0 \in 0 .. FUNCTIONS
    BY <2>1, Sizes
  <2>3. at' \in [bus : Nat, device : 0 .. DEVICES, function : 0 .. FUNCTIONS]
    BY <1>9, <2>2 DEF NextDevice
  <2> QED BY <1>9, <2>3 DEF NextDevice
<1>10. CASE EnumerateFunction
  <2>1. Page(at) \in 0 .. Word - 1
    BY <1>10, PageReached DEF EnumerateFunction, InEntry
  <2>2. mapped' \subseteq 0 .. Word - 1 /\ found' \in Seq(mapped')
    BY <1>10, <2>1, FoundTypes DEF EnumerateFunction, Read
  <2>3. at' \in [bus : Nat, device : 0 .. DEVICES, function : 0 .. FUNCTIONS]
    <3>1. at.function \in 0 .. FUNCTIONS /\ at.function < FUNCTIONS
      BY <1>10 DEF EnumerateFunction
    <3>2. at.function + 1 \in 0 .. FUNCTIONS
      BY <3>1, Sizes
    <3> QED BY <1>10, <3>2 DEF EnumerateFunction
  <2> QED BY <1>10, <2>2, <2>3 DEF EnumerateFunction, Read
<1>11. CASE UNCHANGED vars
  BY <1>11 DEF vars
<1> QED
  BY <1>1, <1>2, <1>3, <1>4, <1>5, <1>6, <1>7, <1>8, <1>9, <1>10, <1>11 DEF Next, Walk, Halted

-----------------------------------------------------------------------------
(* Positions *)

(* The steps go from position to position, within an entry that exists. *)
LEMMA PositionStep ==
  ASSUME TypeOK, AtPosition, [Next]_vars
  PROVE  AtPosition'
<1> USE DEF AtPosition
<1>1. CASE LoadTag
  BY <1>1 DEF LoadTag, walk, InEntry
<1>2. CASE AcpiInit
  <2>1. pos' = 1 /\ UNCHANGED <<machine, mcfg, mapped, found>> /\ pc = "tag" /\ pc' \in {"panic", "table"}
    BY <1>2 DEF AcpiInit, walk
  <2>2. \A k \in DOMAIN machine.tables : ~(k < 1)
    BY MachineParts
  <2> QED BY <2>1, <2>2 DEF InEntry
<1>3. CASE FindTable
  <2>1. pc = "table" /\ UNCHANGED <<machine, mapped, found>>
    BY <1>3 DEF FindTable
  <2>2. CASE pos <= Len(machine.tables) /\ machine.tables[pos] # "MCFG"
    <3>1. pos' = pos + 1 /\ pc' = "table" /\ mcfg' = mcfg
      BY <1>3, <2>1, <2>2 DEF FindTable
    <3>2. \A k \in DOMAIN machine.tables : k < pos + 1 => k < pos \/ k = pos
      BY MachineParts DEF TypeOK
    <3> QED BY <2>1, <2>2, <3>1, <3>2 DEF InEntry
  <2>3. CASE ~(pos <= Len(machine.tables) /\ machine.tables[pos] # "MCFG")
    <3>1. pc' = "entry" /\ mcfg' = IF pos <= Len(machine.tables) THEN machine.mcfg ELSE machine.low
      BY <1>3, <2>3 DEF FindTable
    <3>2. ASSUME pos > Len(machine.tables), "MCFG" \in ToSet(machine.tables)
          PROVE  FALSE
      <4>1. PICK k \in DOMAIN machine.tables : machine.tables[k] = "MCFG"
        BY <3>2 DEF ToSet
      <4>2. k < pos
        BY <3>2, <4>1, MachineParts DEF TypeOK
      <4> QED BY <2>1, <4>1, <4>2
    <3>3. pos \in Nat /\ Len(machine.tables) \in Nat
      BY MachineParts DEF TypeOK
    <3> QED BY <2>1, <3>1, <3>2, <3>3 DEF InEntry
  <2> QED BY <2>2, <2>3
<1>4. CASE Entry
  <2>1. pc = "entry" /\ UNCHANGED <<machine, info, pos, mcfg, mapped, found>>
    BY <1>4 DEF Entry
  <2>2. CASE pos > Len(mcfg)
    BY <1>4, <2>1, <2>2 DEF Entry, InEntry
  <2>3. CASE ~(pos > Len(mcfg))
    <3>1. pos \in DOMAIN mcfg
      BY <2>3, MachineParts DEF TypeOK
    <3>2. pc' = "bus" /\ at' = Start(mcfg[pos].start) /\ mcfg[pos].start \in Nat
      BY <1>4, <2>3, <3>1, EntryParts DEF Entry
    <3> QED BY <2>1, <3>1, <3>2 DEF InEntry, Start
  <2> QED BY <2>2, <2>3
<1>5. CASE NextEntry
  BY <1>5 DEF NextEntry, walk, InEntry
<1>6. CASE EnumerateBus
  <2>1. /\ pc = "bus" /\ at.bus < mcfg[pos].end /\ UNCHANGED <<machine, pos, mcfg, found>>
        /\ at.device = 0 /\ at.function = 0 /\ pos \in DOMAIN mcfg /\ at.bus >= mcfg[pos].start
    BY <1>6 DEF EnumerateBus, Read, InEntry
  <2>2. at.bus \in Nat /\ mcfg[pos].start \in Nat
    BY <2>1, EntryParts DEF TypeOK
  <2>3. CASE Present(at)
    BY <1>6, <2>1, <2>3 DEF EnumerateBus, InEntry
  <2>4. CASE ~Present(at)
    BY <1>6, <2>1, <2>2, <2>4 DEF EnumerateBus, InEntry, Start
  <2> QED BY <2>3, <2>4
<1>7. CASE NextBus
  <2>1. /\ pc = "device" /\ UNCHANGED <<machine, pos, mcfg, found>> /\ pc' = "bus"
        /\ at' = Start(at.bus + 1) /\ pos \in DOMAIN mcfg /\ at.bus >= mcfg[pos].start
    BY <1>7 DEF NextBus, InEntry
  <2>2. at.bus \in Nat /\ mcfg[pos].start \in Nat
    BY <2>1, EntryParts DEF TypeOK
  <2> QED BY <2>1, <2>2 DEF InEntry, Start
<1>8. CASE EnumerateDevice
  BY <1>8 DEF EnumerateDevice, Read, InEntry, TypeOK
<1>9. CASE NextDevice
  BY <1>9 DEF NextDevice, InEntry, TypeOK
<1>10. CASE EnumerateFunction
  BY <1>10 DEF EnumerateFunction, Read, InEntry, TypeOK
<1>11. CASE UNCHANGED vars
  BY <1>11 DEF vars, InEntry
<1> QED
  BY <1>1, <1>2, <1>3, <1>4, <1>5, <1>6, <1>7, <1>8, <1>9, <1>10, <1>11 DEF Next, Walk, Halted

-----------------------------------------------------------------------------
(* What the driver is given *)

(* The walk is through with position a of entry i, now and after a step. *)
IsPassed(i, a) == i < pos \/ (InEntry /\ i = pos /\ Before(a, at))
WillBePassed(i, a) == i < pos' \/ (InEntry' /\ i = pos' /\ Before(a, at'))

(* GivenInOrder, position by position. *)
LEMMA GivenByPosition ==
  GivenInOrder <=>
    /\ mapped \subseteq UNION {Window(machine.mcfg[i]) : i \in DOMAIN machine.mcfg}
    /\ \A n \in DOMAIN found : \E i \in DOMAIN mcfg : \E a \in Positions(mcfg[i]) :
         IsPassed(i, a) /\ found[n] = Address(mcfg[i], a)
    /\ Apart => IsInjective(found)
    /\ \A i \in DOMAIN mcfg : Regular(mcfg[i]) =>
         \A a \in Positions(mcfg[i]) :
           IsPassed(i, a) /\ machine.memory[Address(mcfg[i], a)] = "ahci" =>
             \E n \in DOMAIN found : found[n] = Address(mcfg[i], a)
<1>1. (\A p \in ToSet(found) : \E i \in DOMAIN mcfg : \E a \in Passed(i) : p = Address(mcfg[i], a))
        <=> \A n \in DOMAIN found : \E i \in DOMAIN mcfg : \E a \in Positions(mcfg[i]) :
              IsPassed(i, a) /\ found[n] = Address(mcfg[i], a)
  <2>1. \A p : (\E i \in DOMAIN mcfg : \E a \in Passed(i) : p = Address(mcfg[i], a))
          <=> \E i \in DOMAIN mcfg : \E a \in Positions(mcfg[i]) :
                IsPassed(i, a) /\ p = Address(mcfg[i], a)
    BY Zenon DEF Passed, IsPassed
  <2> DEFINE Passes(p) == \E i \in DOMAIN mcfg : \E a \in Passed(i) : p = Address(mcfg[i], a)
  <2>2. (\A p \in ToSet(found) : Passes(p)) <=> \A n \in DOMAIN found : Passes(found[n])
    <3> HIDE DEF Passes
    <3> QED BY Zenon DEF ToSet
  <2>3. \A n : Passes(found[n]) <=> \E i \in DOMAIN mcfg : \E a \in Positions(mcfg[i]) :
                                      IsPassed(i, a) /\ found[n] = Address(mcfg[i], a)
    BY <2>1, Zenon
  <2>4. (\A n \in DOMAIN found : Passes(found[n]))
          <=> \A n \in DOMAIN found : \E i \in DOMAIN mcfg : \E a \in Positions(mcfg[i]) :
                IsPassed(i, a) /\ found[n] = Address(mcfg[i], a)
    <3> HIDE DEF Passes
    <3> QED BY <2>3, Zenon
  <2> QED BY <2>2, <2>4, Zenon
<1>2. ASSUME NEW i \in DOMAIN mcfg
      PROVE  (\A a \in Passed(i) :
                machine.memory[Address(mcfg[i], a)] = "ahci" => Address(mcfg[i], a) \in ToSet(found))
             <=> \A a \in Positions(mcfg[i]) :
                   IsPassed(i, a) /\ machine.memory[Address(mcfg[i], a)] = "ahci" =>
                     \E n \in DOMAIN found : found[n] = Address(mcfg[i], a)
  <2>1. \A p : p \in ToSet(found) <=> \E n \in DOMAIN found : found[n] = p
    BY Zenon DEF ToSet
  <2>2. \A a : a \in Passed(i) <=> a \in Positions(mcfg[i]) /\ IsPassed(i, a)
    BY Zenon DEF Passed, IsPassed
  <2> QED BY <2>1, <2>2, Zenon
<1> QED BY <1>1, <1>2, Zenon DEF GivenInOrder

(* GivenInOrder after a step, position by position. *)
LEMMA GivesOne ==
  ASSUME UNCHANGED <<machine, mcfg>>,
         mapped' \subseteq UNION {Window(machine.mcfg[i]) : i \in DOMAIN machine.mcfg},
         \A n \in DOMAIN found' : \E i \in DOMAIN mcfg : \E a \in Positions(mcfg[i]) :
           WillBePassed(i, a) /\ found'[n] = Address(mcfg[i], a),
         Apart => IsInjective(found'),
         \A i \in DOMAIN mcfg : Regular(mcfg[i]) =>
           \A a \in Positions(mcfg[i]) :
             WillBePassed(i, a) /\ machine.memory[Address(mcfg[i], a)] = "ahci" =>
               \E n \in DOMAIN found' : found'[n] = Address(mcfg[i], a)
  PROVE  GivenInOrder'
<1>1. Apart' => IsInjective(found)'
  <2>1. Apart' => Apart
    <3>1. machine' = machine
      OBVIOUS
    <3> QED BY <3>1 DEF Apart
  <2> QED BY <2>1 DEF IsInjective
<1>2. \A p \in ToSet(found)' : \E i \in (DOMAIN mcfg)' : \E a \in Positions(mcfg[i])' :
        (i < pos' \/ (InEntry' /\ i = pos' /\ Before(a, at'))) /\ p = Address(mcfg[i], a)'
  BY DEF WillBePassed, ToSet
<1>3. \A i \in DOMAIN mcfg : Regular(mcfg[i])' => Regular(mcfg[i])
  BY DEF Regular
<1> QED BY <1>1, <1>2, <1>3 DEF GivenInOrder, Passed, WillBePassed, ToSet

(* A step that gives the driver nothing, passes no position back, and passes
   none of an entry that keeps the rules where there is an AHCI function. *)
LEMMA GivesNothing ==
  ASSUME GivenInOrder, UNCHANGED <<machine, mcfg, found>>,
         mapped' \subseteq UNION {Window(machine.mcfg[i]) : i \in DOMAIN machine.mcfg},
         \A i \in DOMAIN mcfg : \A a \in Positions(mcfg[i]) :
           /\ IsPassed(i, a) => WillBePassed(i, a)
           /\ Regular(mcfg[i]) /\ WillBePassed(i, a) /\ ~IsPassed(i, a) =>
                machine.memory[Address(mcfg[i], a)] # "ahci"
  PROVE  GivenInOrder'
<1>1. \A n \in DOMAIN found : \E i \in DOMAIN mcfg : \E a \in Positions(mcfg[i]) :
        WillBePassed(i, a) /\ found[n] = Address(mcfg[i], a)
  BY GivenByPosition, Zenon
<1>2. Apart => IsInjective(found)
  BY DEF GivenInOrder
<1>3. ASSUME NEW i \in DOMAIN mcfg, Regular(mcfg[i]),
             NEW a \in Positions(mcfg[i]),
             WillBePassed(i, a), machine.memory[Address(mcfg[i], a)] = "ahci"
      PROVE  \E n \in DOMAIN found : found[n] = Address(mcfg[i], a)
  BY <1>3, GivenByPosition, Zenon
<1>4. found' = found
  OBVIOUS
<1> QED BY <1>1, <1>2, <1>3, <1>4, GivesOne

(* As long as the driver has nothing and no position is passed. *)
LEMMA NothingGiven ==
  ASSUME mapped' = {}, found' = <<>>,
         \A i \in DOMAIN mcfg' : \A a : ~WillBePassed(i, a)
  PROVE  GivenInOrder'
<1>1. ToSet(<<>>) = {}
  BY DEF ToSet
<1>2. IsInjective(<<>>)
  BY DEF IsInjective
<1>3. \A i \in (DOMAIN mcfg)' : Passed(i)' = {}
  BY DEF Passed, WillBePassed
<1> QED BY <1>1, <1>2, <1>3 DEF GivenInOrder

(* The position whose header is read is one of the entry at hand. *)
LEMMA AtInEntry ==
  ASSUME TypeOK, AtPosition, InEntry,
         at.bus < mcfg[pos].end, at.device < DEVICES, at.function < FUNCTIONS
  PROVE  pos \in DOMAIN mcfg /\ at \in Positions(mcfg[pos])
<1>1. pos \in DOMAIN mcfg /\ at.bus >= mcfg[pos].start
  BY DEF AtPosition
<1>2. mcfg[pos].start \in Nat /\ mcfg[pos].end \in Nat
  BY <1>1, EntryParts
<1>3. /\ at.bus \in Nat /\ at.device \in 0 .. DEVICES /\ at.function \in 0 .. FUNCTIONS
      /\ at = [bus |-> at.bus, device |-> at.device, function |-> at.function]
  BY DEF TypeOK
<1>4. /\ at.bus \in mcfg[pos].start .. mcfg[pos].end - 1
      /\ at.device \in 0 .. DEVICES - 1 /\ at.function \in 0 .. FUNCTIONS - 1
  BY <1>1, <1>2, <1>3, Sizes
<1> QED BY <1>1, <1>3, <1>4 DEF Positions

(* What it reads there, on a machine whose windows can be reached. *)
LEMMA AtRead ==
  ASSUME TypeOK, AtPosition, InEntry, Described, Reachable, GivenInOrder,
         at.bus < mcfg[pos].end, at.device < DEVICES, at.function < FUNCTIONS,
         mapped' = mapped \cup {Page(at)}
  PROVE  /\ pos \in DOMAIN mcfg /\ at \in Positions(mcfg[pos]) /\ mcfg = machine.mcfg
         /\ Page(at) = Address(mcfg[pos], at)
         /\ mapped' \subseteq UNION {Window(machine.mcfg[i]) : i \in DOMAIN machine.mcfg}
<1>1. pos \in DOMAIN mcfg /\ at \in Positions(mcfg[pos])
  BY AtInEntry
<1>2. mcfg = machine.mcfg
  BY DEF AtPosition, InEntry, Described
<1>3. Page(at) = Address(mcfg[pos], at) /\ Page(at) \in Window(machine.mcfg[pos])
  BY <1>1, <1>2, WindowPages DEF Page
<1> QED BY <1>1, <1>2, <1>3 DEF GivenInOrder

(* Numbers of the entries and components of the positions, at hand and passed. *)
LEMMA Numbers ==
  ASSUME TypeOK, NEW i \in DOMAIN mcfg, NEW a \in Positions(mcfg[i])
  PROVE  /\ i \in Nat \ {0} /\ pos \in Nat \ {0}
         /\ a.bus \in Nat /\ a.device \in Nat /\ a.function \in Nat
         /\ a.bus >= mcfg[i].start /\ a.bus < mcfg[i].end
         /\ a.device < DEVICES /\ a.function < FUNCTIONS
         /\ at.bus \in Nat /\ at.device \in Nat /\ at.function \in Nat
         /\ mcfg[i].start \in Nat /\ mcfg[i].end \in Nat
<1>1. mcfg[i] \in Configs /\ mcfg[i].start \in Nat /\ mcfg[i].end \in Nat /\ i \in Nat \ {0}
  BY EntryParts
<1>2. /\ a \in Places /\ a.bus \in mcfg[i].start .. mcfg[i].end - 1
      /\ a.device \in 0 .. DEVICES - 1 /\ a.function \in 0 .. FUNCTIONS - 1
  BY <1>1, PositionParts
<1>3. at.bus \in Nat /\ at.device \in 0 .. DEVICES /\ at.function \in 0 .. FUNCTIONS
  BY DEF TypeOK
<1> QED BY <1>1, <1>2, <1>3, Sizes DEF TypeOK, Places

LEMMA GivenEntries ==
  ASSUME TypeOK, AtPosition, Described, Reachable, GivenInOrder, Entry \/ NextEntry
  PROVE  GivenInOrder'
<1>1. UNCHANGED <<machine, mcfg, found>> /\ mapped' = mapped
  BY DEF Entry, NextEntry, walk
<1>2. ASSUME NEW i \in DOMAIN mcfg, NEW a \in Positions(mcfg[i])
      PROVE  IsPassed(i, a) <=> WillBePassed(i, a)
  <2>1. CASE Entry
    <3>1. pc = "entry" /\ pos' = pos
      BY <2>1 DEF Entry
    <3>2. CASE pos > Len(mcfg)
      BY <2>1, <3>1, <3>2 DEF Entry, IsPassed, WillBePassed, InEntry
    <3>3. CASE ~(pos > Len(mcfg))
      <4>1. at' = Start(mcfg[pos].start) /\ pc' = "bus"
        BY <2>1, <3>3 DEF Entry
      <4>2. i = pos => ~Before(a, at')
        BY <4>1, Numbers DEF Before, Start
      <4> QED BY <3>1, <4>1, <4>2 DEF IsPassed, WillBePassed, InEntry
    <3> QED BY <3>2, <3>3
  <2>2. CASE NextEntry
    <3>1. pc = "bus" /\ at.bus >= mcfg[pos].end /\ pc' = "entry" /\ pos' = pos + 1
      BY <2>2 DEF NextEntry
    <3>2. i = pos => Before(a, at)
      BY <3>1, Numbers DEF Before
    <3>3. i < pos + 1 <=> i < pos \/ i = pos
      BY Numbers
    <3> QED BY <3>1, <3>2, <3>3 DEF IsPassed, WillBePassed, InEntry
  <2> QED BY <2>1, <2>2
<1>3. mapped' \subseteq UNION {Window(machine.mcfg[i]) : i \in DOMAIN machine.mcfg}
  BY <1>1 DEF GivenInOrder
<1> QED BY <1>1, <1>2, <1>3, GivesNothing

LEMMA GivenNexts ==
  ASSUME TypeOK, AtPosition, Described, Reachable, GivenInOrder, NextBus \/ NextDevice
  PROVE  GivenInOrder'
<1>1. UNCHANGED <<machine, pos, mcfg, found>> /\ mapped' = mapped /\ InEntry /\ InEntry'
  BY DEF NextBus, NextDevice, InEntry
<1>2. ASSUME NEW i \in DOMAIN mcfg, NEW a \in Positions(mcfg[i]), i = pos
      PROVE  Before(a, at) <=> Before(a, at')
  <2>1. CASE NextBus
    <3>1. at.device = DEVICES /\ at' = Start(at.bus + 1)
      BY <2>1 DEF NextBus
    <3> QED BY <1>2, <3>1, Numbers DEF Before, Start
  <2>2. CASE NextDevice
    <3>1. /\ at.function = FUNCTIONS
          /\ at'.bus = at.bus /\ at'.device = at.device + 1 /\ at'.function = 0
      BY <2>2 DEF NextDevice, TypeOK
    <3> QED BY <1>2, <3>1, Numbers DEF Before
  <2> QED BY <2>1, <2>2
<1>3. \A i \in DOMAIN mcfg : \A a \in Positions(mcfg[i]) : IsPassed(i, a) <=> WillBePassed(i, a)
  BY <1>1, <1>2 DEF IsPassed, WillBePassed
<1>4. mapped' \subseteq UNION {Window(machine.mcfg[i]) : i \in DOMAIN machine.mcfg}
  BY <1>1 DEF GivenInOrder
<1> QED BY <1>1, <1>3, <1>4, GivesNothing

LEMMA GivenBus ==
  ASSUME TypeOK, AtPosition, Described, Reachable, GivenInOrder, EnumerateBus
  PROVE  GivenInOrder'
<1>1. /\ pc = "bus" /\ InEntry /\ InEntry' /\ UNCHANGED <<machine, pos, mcfg, found>>
      /\ mapped' = mapped \cup {Page(at)} /\ at.bus < mcfg[pos].end
      /\ at.device = 0 /\ at.function = 0
  BY DEF EnumerateBus, Read, InEntry, AtPosition
<1>2. /\ Page(at) = Address(mcfg[pos], at)
      /\ mapped' \subseteq UNION {Window(machine.mcfg[i]) : i \in DOMAIN machine.mcfg}
  BY <1>1, AtRead, Sizes
<1>3. CASE Present(at)
  <2>1. at' = at
    BY <1>3 DEF EnumerateBus
  <2>2. \A i \in DOMAIN mcfg : \A a \in Positions(mcfg[i]) : IsPassed(i, a) <=> WillBePassed(i, a)
    BY <1>1, <2>1 DEF IsPassed, WillBePassed
  <2> QED BY <1>1, <1>2, <2>2, GivesNothing
<1>4. CASE ~Present(at)
  <2>1. at' = Start(at.bus + 1)
    BY <1>4 DEF EnumerateBus
  <2>2. ASSUME NEW i \in DOMAIN mcfg, NEW a \in Positions(mcfg[i])
        PROVE  /\ IsPassed(i, a) => WillBePassed(i, a)
               /\ WillBePassed(i, a) /\ ~IsPassed(i, a) => i = pos /\ a.bus = at.bus
    <3>1. i = pos => /\ Before(a, at) => Before(a, at')
                     /\ Before(a, at') /\ ~Before(a, at) => a.bus = at.bus
      BY <1>1, <2>1, Numbers DEF Before, Start
    <3> QED BY <1>1, <3>1 DEF IsPassed, WillBePassed
  <2>3. ASSUME NEW a \in Positions(mcfg[pos]), Regular(mcfg[pos]), a.bus = at.bus
        PROVE  machine.memory[Address(mcfg[pos], a)] # "ahci"
    <3>1. Address(mcfg[pos], Start(a.bus)) = Address(mcfg[pos], at)
      BY <1>1, <2>3 DEF Address, Start
    <3>2. machine.memory[Address(mcfg[pos], Start(a.bus))] = "absent"
      BY <1>2, <1>4, <3>1 DEF Present
    <3> QED BY <2>3, <3>2 DEF Regular
  <2> QED BY <1>1, <1>2, <2>2, <2>3, GivesNothing
<1> QED BY <1>3, <1>4

LEMMA GivenDevice ==
  ASSUME TypeOK, AtPosition, Described, Reachable, GivenInOrder, EnumerateDevice
  PROVE  GivenInOrder'
<1>1. /\ pc = "device" /\ InEntry /\ InEntry' /\ UNCHANGED <<machine, pos, mcfg, found>>
      /\ mapped' = mapped \cup {Page(at)} /\ at.bus < mcfg[pos].end
      /\ at.device < DEVICES /\ at.function = 0
  BY DEF EnumerateDevice, Read, InEntry, AtPosition
<1>2. /\ Page(at) = Address(mcfg[pos], at)
      /\ mapped' \subseteq UNION {Window(machine.mcfg[i]) : i \in DOMAIN machine.mcfg}
  BY <1>1, AtRead, Sizes
<1>3. CASE Present(at)
  <2>1. at' = at
    BY <1>3 DEF EnumerateDevice
  <2>2. \A i \in DOMAIN mcfg : \A a \in Positions(mcfg[i]) : IsPassed(i, a) <=> WillBePassed(i, a)
    BY <1>1, <2>1 DEF IsPassed, WillBePassed
  <2> QED BY <1>1, <1>2, <2>2, GivesNothing
<1>4. CASE ~Present(at)
  <2>1. at'.bus = at.bus /\ at'.device = at.device + 1 /\ at'.function = at.function
    BY <1>4 DEF EnumerateDevice, TypeOK
  <2>2. ASSUME NEW i \in DOMAIN mcfg, NEW a \in Positions(mcfg[i])
        PROVE  /\ IsPassed(i, a) => WillBePassed(i, a)
               /\ WillBePassed(i, a) /\ ~IsPassed(i, a) =>
                    i = pos /\ a.bus = at.bus /\ a.device = at.device
    <3>1. i = pos => /\ Before(a, at) => Before(a, at')
                     /\ Before(a, at') /\ ~Before(a, at) => a.bus = at.bus /\ a.device = at.device
      BY <1>1, <2>1, Numbers DEF Before
    <3> QED BY <1>1, <3>1 DEF IsPassed, WillBePassed
  <2>3. ASSUME NEW a \in Positions(mcfg[pos]), Regular(mcfg[pos]), a.bus = at.bus, a.device = at.device
        PROVE  machine.memory[Address(mcfg[pos], a)] # "ahci"
    <3>1. Address(mcfg[pos], [a EXCEPT !.function = 0]) = Address(mcfg[pos], at)
      BY <1>1, <2>3 DEF Address, Positions
    <3>2. machine.memory[Address(mcfg[pos], [a EXCEPT !.function = 0])] = "absent"
      BY <1>2, <1>4, <3>1 DEF Present
    <3> QED BY <2>3, <3>2 DEF Regular
  <2> QED BY <1>1, <1>2, <2>2, <2>3, GivesNothing
<1> QED BY <1>3, <1>4

(* A page given at another time is another page. *)
LEMMA PageIsNew ==
  ASSUME TypeOK, AtPosition, InEntry, Described, Reachable, GivenInOrder, Apart,
         pos \in DOMAIN mcfg, at \in Positions(mcfg[pos]), NEW n \in DOMAIN found
  PROVE  found[n] # Address(mcfg[pos], at)
<1>1. PICK i \in DOMAIN mcfg : \E a \in Positions(mcfg[i]) :
        IsPassed(i, a) /\ found[n] = Address(mcfg[i], a)
  BY GivenByPosition
<1>2. PICK a \in Positions(mcfg[i]) : IsPassed(i, a) /\ found[n] = Address(mcfg[i], a)
  BY <1>1
<1>3. CASE i = pos
  <2>1. Before(a, at)
    BY <1>2, <1>3, Numbers DEF IsPassed
  <2>2. ~(a.bus = at.bus /\ a.device = at.device /\ a.function = at.function)
    BY <1>3, <2>1, Numbers DEF Before
  <2> QED BY <1>2, <1>3, <2>2, EntryParts, AddressInjective
<1>4. CASE i # pos
  <2>1. mcfg = machine.mcfg
    BY DEF AtPosition, InEntry, Described
  <2>2. /\ Address(mcfg[i], a) \in Window(machine.mcfg[i])
        /\ Address(mcfg[pos], at) \in Window(machine.mcfg[pos])
    BY <2>1, WindowPages
  <2>3. Window(machine.mcfg[i]) \cap Window(machine.mcfg[pos]) = {}
    BY <1>4, <2>1 DEF Apart
  <2> QED BY <1>2, <2>2, <2>3
<1> QED BY <1>3, <1>4

LEMMA GivenFunction ==
  ASSUME TypeOK, AtPosition, Described, Reachable, GivenInOrder, EnumerateFunction
  PROVE  GivenInOrder'
<1> DEFINE p == Address(mcfg[pos], at)
<1>1. /\ pc = "function" /\ InEntry /\ InEntry' /\ UNCHANGED <<machine, pos, mcfg>>
      /\ mapped' = mapped \cup {Page(at)} /\ at.bus < mcfg[pos].end
      /\ at.device < DEVICES /\ at.function < FUNCTIONS
  BY DEF EnumerateFunction, Read, InEntry, AtPosition
<1>2. /\ Page(at) = p /\ pos \in DOMAIN mcfg /\ at \in Positions(mcfg[pos])
      /\ mapped' \subseteq UNION {Window(machine.mcfg[i]) : i \in DOMAIN machine.mcfg}
  BY <1>1, AtRead
<1>3. at'.bus = at.bus /\ at'.device = at.device /\ at'.function = at.function + 1
  BY DEF EnumerateFunction, TypeOK
<1>4. ASSUME NEW i \in DOMAIN mcfg, NEW a \in Positions(mcfg[i])
      PROVE  /\ IsPassed(i, a) => WillBePassed(i, a)
             /\ WillBePassed(i, a) /\ ~IsPassed(i, a) =>
                  i = pos /\ Address(mcfg[i], a) = p
             /\ i = pos /\ a = at => WillBePassed(i, a)
  <2>1. i = pos => /\ Before(a, at) => Before(a, at')
                   /\ Before(a, at') /\ ~Before(a, at) =>
                        a.bus = at.bus /\ a.device = at.device /\ a.function = at.function
                   /\ a = at => Before(a, at')
    BY <1>1, <1>3, Numbers DEF Before
  <2>2. i = pos /\ a.bus = at.bus /\ a.device = at.device /\ a.function = at.function =>
          Address(mcfg[i], a) = p
    BY DEF Address
  <2> QED BY <1>1, <2>1, <2>2 DEF IsPassed, WillBePassed
<1> HIDE DEF p
<1>5. CASE machine.memory[p] # "ahci"
  <2>1. found' = found
    BY <1>2, <1>5 DEF EnumerateFunction
  <2> QED BY <1>1, <1>2, <1>4, <1>5, <2>1, GivesNothing
<1>6. CASE machine.memory[p] = "ahci"
  <2>1. found' = Append(found, p) /\ found \in Seq(mapped)
    BY <1>2, <1>6 DEF EnumerateFunction, TypeOK
  <2>2. /\ DOMAIN found' = DOMAIN found \cup {Len(found) + 1}
        /\ \A n \in DOMAIN found : found'[n] = found[n] /\ n # Len(found) + 1
        /\ found'[Len(found) + 1] = p
    BY <2>1
  <2>3. ASSUME NEW n \in DOMAIN found'
        PROVE  \E i \in DOMAIN mcfg : \E a \in Positions(mcfg[i]) :
                 WillBePassed(i, a) /\ found'[n] = Address(mcfg[i], a)
    <3>1. CASE n \in DOMAIN found
      <4>1. \E i \in DOMAIN mcfg : \E a \in Positions(mcfg[i]) :
              IsPassed(i, a) /\ found[n] = Address(mcfg[i], a)
        BY <3>1, GivenByPosition
      <4> QED BY <1>4, <2>2, <3>1, <4>1
    <3>2. CASE n = Len(found) + 1
      BY <1>2, <1>4, <2>2, <3>2 DEF p
    <3> QED BY <2>2, <3>1, <3>2
  <2>4. ASSUME Apart
        PROVE  IsInjective(found')
    <3>1. \A n \in DOMAIN found : found[n] # p
      BY <1>1, <1>2, <2>4, PageIsNew DEF p
    <3>2. IsInjective(found)
      BY <2>4 DEF GivenInOrder
    <3> QED BY <2>2, <3>1, <3>2 DEF IsInjective
  <2>5. ASSUME NEW i \in DOMAIN mcfg, Regular(mcfg[i]),
               NEW a \in Positions(mcfg[i]),
               WillBePassed(i, a), machine.memory[Address(mcfg[i], a)] = "ahci"
        PROVE  \E n \in DOMAIN found' : found'[n] = Address(mcfg[i], a)
    <3>1. CASE IsPassed(i, a)
      <4>1. \E n \in DOMAIN found : found[n] = Address(mcfg[i], a)
        BY <2>5, <3>1, GivenByPosition
      <4> QED BY <2>2, <4>1
    <3>2. CASE ~IsPassed(i, a)
      BY <1>4, <2>2, <2>5, <3>2
    <3> QED BY <3>1, <3>2
  <2> QED BY <1>1, <1>2, <2>3, <2>4, <2>5, GivesOne
<1> QED BY <1>5, <1>6

(* Every step of the walk keeps what the driver is given in order. *)
LEMMA GivenStep ==
  ASSUME TypeOK, AtPosition, Described, Reachable, GivenInOrder, [Next]_vars
  PROVE  GivenInOrder'
<1>1. CASE LoadTag \/ AcpiInit
  <2>1. mcfg' = <<>> /\ mapped' = {} /\ found' = <<>>
    BY <1>1 DEF LoadTag, AcpiInit, walk, AtPosition
  <2>2. \A i \in DOMAIN mcfg' : \A a : ~WillBePassed(i, a)
    BY <2>1
  <2> QED BY <2>1, <2>2, NothingGiven
<1>2. CASE FindTable
  <2>1. mapped' = {} /\ found' = <<>> /\ mcfg = <<>> /\ pc = "table"
    BY <1>2 DEF FindTable, AtPosition
  <2>2. CASE pos <= Len(machine.tables) /\ machine.tables[pos] # "MCFG"
    <3>1. mcfg' = <<>>
      BY <1>2, <2>1, <2>2 DEF FindTable
    <3>2. \A i \in DOMAIN mcfg' : \A a : ~WillBePassed(i, a)
      BY <3>1
    <3> QED BY <2>1, <3>2, NothingGiven
  <2>3. CASE ~(pos <= Len(machine.tables) /\ machine.tables[pos] # "MCFG")
    <3>1. pos' = 1 /\ pc' = "entry" /\ mcfg' \in {machine.mcfg, machine.low}
      BY <1>2, <2>3 DEF FindTable
    <3>2. \A i \in DOMAIN mcfg' : ~(i < 1)
      BY <3>1, MachineParts
    <3>3. \A i \in DOMAIN mcfg' : \A a : ~WillBePassed(i, a)
      BY <3>1, <3>2 DEF WillBePassed, InEntry
    <3> QED BY <2>1, <3>3, NothingGiven
  <2> QED BY <2>2, <2>3
<1>3. CASE UNCHANGED vars
  <2>1. /\ UNCHANGED <<machine, mcfg, found>>
        /\ mapped' \subseteq UNION {Window(machine.mcfg[i]) : i \in DOMAIN machine.mcfg}
    BY <1>3 DEF vars, GivenInOrder
  <2>2. \A i, a : IsPassed(i, a) <=> WillBePassed(i, a)
    BY <1>3 DEF vars, IsPassed, WillBePassed, InEntry
  <2> QED BY <2>1, <2>2, GivesNothing
<1> QED
  BY <1>1, <1>2, <1>3, GivenEntries, GivenNexts, GivenBus, GivenDevice, GivenFunction
  DEF Next, Walk, Halted

-----------------------------------------------------------------------------
(* The theorems *)

(* The invariant of the walk, load_tags to the last function. *)
THEOREM WalkInvariant == Spec => []DevicesInv
<1>1. Init => DevicesInv
  <2> SUFFICES ASSUME Init PROVE DevicesInv
    OBVIOUS
  <2>1. TypeOK
    <3>1. IsMachine(machine)
      BY DevicesAssumption DEF Init
    <3>2. info \in [TagKinds -> 0 .. Len(machine.tags)]
      BY <3>1 DEF Init, IsMachine
    <3>3. at \in [bus : Nat, device : 0 .. DEVICES, function : 0 .. FUNCTIONS]
      BY Sizes DEF Init, Start
    <3> QED BY <3>1, <3>2, <3>3 DEF Init, TypeOK
  <2>2. AtPosition
    BY DEF Init, AtPosition, InEntry
  <2>3. GivenInOrder
    <3>1. ToSet(<<>>) = {} /\ IsInjective(<<>>)
      BY DEF ToSet, IsInjective
    <3> QED BY <3>1 DEF Init, GivenInOrder
  <2> QED BY <2>1, <2>2, <2>3 DEF DevicesInv
<1>2. DevicesInv /\ [Next]_vars => DevicesInv'
  <2> SUFFICES ASSUME DevicesInv, [Next]_vars PROVE DevicesInv'
    OBVIOUS
  <2>1. TypeOK' /\ AtPosition'
    BY TypeStep, PositionStep DEF DevicesInv
  <2>2. machine' = machine
    BY DEF Next, Walk, Halted, vars, LoadTag, AcpiInit, FindTable, Entry, NextEntry, EnumerateBus,
           NextBus, EnumerateDevice, NextDevice, EnumerateFunction, Read
  <2>3. (Described /\ Reachable)' => Described /\ Reachable
    BY <2>2 DEF Described, Reachable
  <2> QED BY <2>1, <2>3, GivenStep DEF DevicesInv
<1> QED BY <1>1, <1>2, PTL DEF Spec

(* pci_enumerate leaves out no AHCI function that PCI's rules let it find. *)
THEOREM DrivesAreFound == Spec => []AhciFound
<1>1. DevicesInv => AhciFound
  <2> SUFFICES ASSUME DevicesInv, pc = "done", Described, Reachable,
                      NEW i \in DOMAIN machine.mcfg, Regular(machine.mcfg[i]),
                      NEW a \in Positions(machine.mcfg[i]),
                      machine.memory[Address(machine.mcfg[i], a)] = "ahci"
               PROVE  Address(machine.mcfg[i], a) \in ToSet(found)
    BY DEF AhciFound, Window
  <2>1. mcfg = machine.mcfg /\ pos > Len(mcfg) /\ TypeOK /\ GivenInOrder
    BY DEF DevicesInv, AtPosition, Described
  <2>2. i \in DOMAIN mcfg /\ i < pos
    BY <2>1, EntryParts DEF TypeOK
  <2> QED BY <2>1, <2>2 DEF GivenInOrder, Passed
<1> QED BY <1>1, WalkInvariant, PTL

(* ahci_driver_init runs once for a function, and its page is mapped. *)
THEOREM DrivesAreFoundOnce == Spec => []FoundOnce
<1>1. DevicesInv => FoundOnce
  BY DEF DevicesInv, GivenInOrder, FoundOnce
<1> QED BY <1>1, WalkInvariant, PTL

(* ptm_map_addr gets pages of the windows, and no other. *)
THEOREM ReadsStayInWindows == Spec => []OnlyWindowsRead
<1>1. DevicesInv => OnlyWindowsRead
  BY DEF DevicesInv, GivenInOrder, OnlyWindowsRead
<1> QED BY <1>1, WalkInvariant, PTL
===============================================================================
