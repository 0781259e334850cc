------------------------- MODULE CharDrivers_proofs -------------------------
(***************************************************************************)
(* The character drivers.  First for any scripts, selections, users and    *)
(* failures: where each module is and what it holds; then, for the scripts *)
(* of the eight drivers (Driver = AllDrivers), what each list of releases  *)
(* has and leaves out, and what follows: what is leaked, what ModuleExit   *)
(* gives back, whose files are left on freed code, and who takes the pins  *)
(* and major numbers of others.                                            *)
(***************************************************************************)
EXTENDS CharDrivers, SequenceTheorems, TLAPS

-----------------------------------------------------------------------------
(* Where a module is, and what it holds, for any scripts.                  *)

\* The first k - 1 steps of ModuleInit include the acquisition of r.
Acquired(m, k, r) ==
    \E j \in 1..(k - 1) : Driver[m].init[j].do = "take" /\ Driver[m].init[j].res = r

\* A list of releases has r.
Listed(s, r) == \E i \in 1..Len(s) : s[i] = r

\* The failure of step k is noticed.
Failable(m, k) ==
    /\ k \in 1..Len(Driver[m].init)
    /\ \/ Driver[m].init[k].do = "output"
       \/ Driver[m].init[k].do = "take" /\ Noticed(Driver[m].init[k].res)

\* A label that a failed step jumps to, or ModuleExit, leaves r out.
Forgotten(m, r) ==
    \/ \E k \in 1..Len(Driver[m].init) :
         Failable(m, k) /\ Acquired(m, k, r) /\ ~Listed(Driver[m].unwind[k], r)
    \/ Acquired(m, Len(Driver[m].init) + 1, r) /\ ~Listed(Driver[m].exit, r)

CharTypes ==
    /\ present \in Selections
    /\ state \in [Modules -> States]
    /\ next \in [Modules -> Nat]
    /\ rest \in [Modules -> Releases]
    /\ my_class \in [Modules -> {"unset", "class", "error", "freed"}]
    /\ held \in [Modules -> SUBSET Resource]
    /\ orphans \subseteq Resource
    /\ file \in [Users -> Modules \cup {NoFile, FreedCode}]

Place(m) ==
    /\ next[m] \in 1..(Len(Driver[m].init) + 1)
    /\ state[m] # "absent" => m \in present
    /\ state[m] = "absent" => next[m] = 1 /\ held[m] = {}
    /\ state[m] \in {"absent", "init", "live"} => rest[m] = <<>>
    /\ state[m] \in {"live", "exit"} => next[m] = Len(Driver[m].init) + 1
    /\ state[m] = "unwind" => Failable(m, next[m])

Books(m) ==
    /\ \A r \in held[m] : Acquired(m, next[m], r)
    /\ state[m] = "unwind" =>
         \A r \in held[m] : Listed(rest[m], r) \/ ~Listed(Driver[m].unwind[next[m]], r)
    /\ state[m] = "exit" =>
         \A r \in held[m] : Listed(rest[m], r) \/ ~Listed(Driver[m].exit, r)

OrphansForgotten == \A r \in orphans : \E m \in Modules : Forgotten(m, r)

CharInv ==
    /\ CharTypes
    /\ OrphansForgotten
    /\ \A m \in Modules : Place(m) /\ Books(m)

\* What the scripts are made of.
LEMMA ScriptTypes ==
  ASSUME NEW m \in Modules
  PROVE  /\ Driver[m].init \in Seq(InitStep) /\ Len(Driver[m].init) \in Nat
         /\ Driver[m].exit \in Releases
         /\ \A k \in 1..Len(Driver[m].init) :
              /\ Driver[m].init[k] \in InitStep
              /\ Driver[m].init[k].do \in {"take", "output", "drop"}
              /\ Driver[m].init[k].res \in Resource
              /\ Driver[m].unwind[k] \in Releases
<1>1. /\ Driver[m].init \in Seq(InitStep) /\ Driver[m].exit \in Releases
      /\ Driver[m].unwind \in [1..Len(Driver[m].init) -> Releases]
  BY CharAssumption
<1>2. \A k \in 1..Len(Driver[m].init) : Driver[m].init[k] \in InitStep
  BY <1>1, ElementOfSeq
<1> QED
  BY <1>1, <1>2 DEF InitStep

\* A list without its head.
LEMMA TailLists ==
  ASSUME NEW s \in Releases, s # <<>>
  PROVE  /\ Tail(s) \in Releases /\ Head(s) \in Resource \cup {Beyond}
         /\ \A r : Listed(s, r) <=> r = Head(s) \/ Listed(Tail(s), r)
<1>1. s \in Seq(Resource \cup {Beyond}) /\ Len(s) \in Nat /\ Len(s) >= 1
  BY DEF Releases
<1>2. /\ Tail(s) \in Seq(Resource \cup {Beyond}) /\ Len(Tail(s)) = Len(s) - 1
      /\ \A i \in 1..(Len(s) - 1) : Tail(s)[i] = s[i + 1]
  BY <1>1
<1>3. Head(s) = s[1] /\ Head(s) \in Resource \cup {Beyond}
  BY <1>1
<1>4. ASSUME NEW r, Listed(s, r) PROVE r = Head(s) \/ Listed(Tail(s), r)
  <2>1. PICK i \in 1..Len(s) : s[i] = r
    BY <1>4 DEF Listed
  <2>2. CASE i = 1
    BY <1>3, <2>1, <2>2
  <2>3. CASE i # 1
    <3>1. i - 1 \in 1..(Len(s) - 1) /\ (i - 1) + 1 = i
      BY <1>1, <2>3
    <3>2. Tail(s)[i - 1] = r
      BY <1>2, <2>1, <3>1
    <3> QED
      BY <1>2, <3>1, <3>2 DEF Listed
  <2> QED
    BY <2>2, <2>3
<1>5. ASSUME NEW r, r = Head(s) \/ Listed(Tail(s), r) PROVE Listed(s, r)
  <2>1. CASE r = Head(s)
    BY <1>1, <1>3, <2>1 DEF Listed
  <2>2. CASE Listed(Tail(s), r)
    <3>1. PICK i \in 1..(Len(s) - 1) : Tail(s)[i] = r
      BY <1>2, <2>2 DEF Listed
    <3>2. i + 1 \in 1..Len(s) /\ s[i + 1] = r
      BY <1>1, <1>2, <3>1
    <3> QED
      BY <3>2 DEF Listed
  <2> QED
    BY <1>5, <2>1, <2>2
<1> QED
  BY <1>2, <1>3, <1>4, <1>5 DEF Releases

\* A release takes r from its module, and from others at most a pin or a major
\* number.
LEMMA ReleasedEffect ==
  ASSUME CharTypes, NEW m \in Modules, NEW r \in Resource \cup {Beyond}, Released(m, r)
  PROVE  /\ held' \in [Modules -> SUBSET Resource]
         /\ my_class' \in [Modules -> {"unset", "class", "error", "freed"}]
         /\ orphans' \subseteq orphans
         /\ r \notin held'[m]
         /\ \A n \in Modules : held'[n] \subseteq held[n]
         /\ \A n \in Modules : \A x \in held[n] \ held'[n] :
              \/ x = r /\ (n = m \/ r.kind \in {"pin", "major"})
              \/ r.kind = "beyond" /\ x.kind = "pin"
<1>1. Beyond.kind = "beyond" /\ \A x \in Resource : x.kind \in Kinds /\ x.kind # "beyond"
  BY DEF Beyond, Resource, Kinds
<1>2. Beyond \notin Resource
  BY <1>1
<1>3. held \in [Modules -> SUBSET Resource]
        /\ my_class \in [Modules -> {"unset", "class", "error", "freed"}]
  BY DEF CharTypes
<1>4. CASE r.kind \in {"pin", "major"}
  <2>1. held' = [n \in Modules |-> held[n] \ {r}] /\ orphans' = orphans \ {r}
          /\ my_class' = my_class
    BY <1>4 DEF Released
  <2> QED
    BY <1>3, <1>4, <2>1
<1>5. CASE r.kind = "beyond"
  <2>1. PICK p \in {q \in UNION {held[n] : n \in Modules} \cup orphans :
                       q.kind = "pin"} \cup {Beyond} :
             /\ held' = [n \in Modules |-> held[n] \ {p}]
             /\ orphans' = orphans \ {p} /\ my_class' = my_class
    BY <1>5 DEF Released
  <2>2. p.kind = "pin" \/ p = Beyond
    BY <2>1
  <2>3. r = Beyond
    BY <1>1, <1>5
  <2>4. \A n \in Modules : \A x \in held[n] \ held'[n] : x = p /\ x \in Resource
    BY <1>3, <2>1
  <2>5. \A n \in Modules : \A x \in held[n] \ held'[n] : x.kind = "pin"
    BY <1>2, <2>2, <2>4
  <2>6. r \notin held'[m]
    BY <1>2, <1>3, <2>1, <2>3
  <2> QED
    BY <1>3, <1>5, <2>1, <2>5, <2>6
<1>6. CASE r.kind \in {"node", "class", "region", "cdev"}
  <2>1. held' = [held EXCEPT ![m] = @ \ {r}] /\ orphans' = orphans
    BY <1>6 DEF Released
  <2>2. my_class' \in [Modules -> {"unset", "class", "error", "freed"}]
    <3>1. CASE r.kind = "class"
      <4>1. PICK c \in {"error", "freed"} : my_class' = [my_class EXCEPT ![m] = c]
        BY <3>1 DEF Released
      <4> QED
        BY <1>3, <4>1
    <3>2. CASE r.kind # "class"
      BY <1>3, <1>6, <3>2 DEF Released
    <3> QED
      BY <3>1, <3>2
  <2> QED
    BY <1>3, <2>1, <2>2
<1> QED
  BY <1>1, <1>4, <1>5, <1>6 DEF Kinds

\* What every step of module m has to show.
Moved(m) ==
    /\ CharTypes' /\ present' = present
    /\ \A n \in Modules \ {m} :
         /\ state'[n] = state[n] /\ next'[n] = next[n] /\ rest'[n] = rest[n]
         /\ held'[n] \subseteq held[n]
    /\ Place(m)' /\ Books(m)' /\ OrphansForgotten'

\* A step of m keeps the invariant of the others: they hold no more than before.
LEMMA MovedKeeps ==
  ASSUME CharInv, NEW m \in Modules, Moved(m)
  PROVE  CharInv'
<1>1. ASSUME NEW n \in Modules, n # m PROVE Place(n)' /\ Books(n)'
  <2>1. /\ state'[n] = state[n] /\ next'[n] = next[n] /\ rest'[n] = rest[n]
        /\ held'[n] \subseteq held[n] /\ present' = present
    BY <1>1 DEF Moved
  <2>2. Place(n) /\ Books(n)
    BY DEF CharInv
  <2>3. Place(n)'
    BY <2>1, <2>2 DEF Place
  <2>4. Books(n)'
    BY <2>1, <2>2 DEF Books
  <2> QED
    BY <2>3, <2>4
<1> QED
  BY <1>1 DEF Moved, CharInv

\* Nothing is loaded at first.
LEMMA CharInvInit == Init => CharInv
<1> SUFFICES ASSUME Init PROVE CharInv
  OBVIOUS
<1>1. <<>> \in Releases
  BY DEF Releases
<1>2. CharTypes
  BY <1>1 DEF Init, CharTypes, States
<1>3. \A m \in Modules : Place(m) /\ Books(m)
  BY ScriptTypes DEF Init, Place, Books
<1> QED
  BY <1>2, <1>3 DEF CharInv, Init, OrphansForgotten

\* What was acquired stays acquired, and a step that takes r adds it.
LEMMA AcquiredGrows ==
  ASSUME NEW m \in Modules, NEW k \in Nat \ {0}
  PROVE  /\ \A r : Acquired(m, k, r) => Acquired(m, k + 1, r)
         /\ Driver[m].init[k].do = "take" => Acquired(m, k + 1, Driver[m].init[k].res)
         /\ \A r : Acquired(m, k + 1, r) =>
              \/ Acquired(m, k, r)
              \/ Driver[m].init[k].do = "take" /\ Driver[m].init[k].res = r
<1>1. \A j \in 1..(k + 1 - 1) : j = k \/ j \in 1..(k - 1)
  OBVIOUS
<1>2. k \in 1..(k + 1 - 1) /\ \A j \in 1..(k - 1) : j \in 1..(k + 1 - 1)
  OBVIOUS
<1> QED
  BY <1>1, <1>2 DEF Acquired

\* Loading, directions and the return of ModuleInit; rmmod.
LEMMA LoadMoves ==
  ASSUME CharInv, NEW m \in Modules, Load(m) \/ Output(m) \/ Live(m) \/ Unload(m)
  PROVE  Moved(m)
<1>1. CharTypes /\ OrphansForgotten /\ Place(m) /\ Books(m)
  BY DEF CharInv
<1>2. /\ UNCHANGED <<present, my_class, held, orphans, file>>
      /\ \A n \in Modules \ {m} :
           state'[n] = state[n] /\ next'[n] = next[n] /\ rest'[n] = rest[n]
  BY <1>1 DEF CharTypes, Load, Output, Live, Unload
<1>3. OrphansForgotten'
  BY <1>1, <1>2 DEF OrphansForgotten
<1>4. \A n \in Modules \ {m} : held'[n] \subseteq held[n]
  BY <1>2
<1>5. CASE Load(m)
  <2>1. /\ state' = [state EXCEPT ![m] = "init"] /\ UNCHANGED <<next, rest>>
        /\ state[m] = "absent" /\ m \in present
    BY <1>5 DEF Load
  <2>2. CharTypes' /\ state'[m] = "init"
    BY <1>1, <1>2, <2>1 DEF CharTypes, States
  <2>3. Place(m)'
    BY <1>1, <1>2, <2>1, <2>2 DEF Place
  <2>4. Books(m)'
    BY <1>1, <1>2, <2>1, <2>2 DEF Books
  <2> QED
    BY <1>2, <1>3, <1>4, <2>2, <2>3, <2>4 DEF Moved
<1>6. CASE Output(m)
  <2>1. /\ next' = [next EXCEPT ![m] = @ + 1] /\ UNCHANGED <<state, rest>>
        /\ state[m] = "init" /\ next[m] <= Len(Driver[m].init)
    BY <1>6 DEF Output, Initialising
  <2>2. CharTypes' /\ next'[m] = next[m] + 1
    BY <1>1, <1>2, <2>1 DEF CharTypes
  <2>3. next[m] \in Nat \ {0} /\ next[m] + 1 \in 1..(Len(Driver[m].init) + 1)
    BY <1>1, <2>1, ScriptTypes DEF Place
  <2>4. Place(m)'
    BY <1>1, <1>2, <2>1, <2>2, <2>3 DEF Place
  <2>5. Books(m)'
    BY <1>1, <1>2, <2>1, <2>2, <2>3, AcquiredGrows DEF Books
  <2> QED
    BY <1>2, <1>3, <1>4, <2>2, <2>4, <2>5 DEF Moved
<1>7. CASE Live(m)
  <2>1. /\ state' = [state EXCEPT ![m] = "live"] /\ UNCHANGED <<next, rest>>
        /\ state[m] = "init" /\ next[m] > Len(Driver[m].init)
    BY <1>7 DEF Live
  <2>2. CharTypes' /\ state'[m] = "live"
    BY <1>1, <1>2, <2>1 DEF CharTypes, States
  <2>3. next[m] = Len(Driver[m].init) + 1
    BY <1>1, <2>1, ScriptTypes DEF Place
  <2>4. Place(m)'
    BY <1>1, <1>2, <2>1, <2>2, <2>3 DEF Place
  <2>5. Books(m)'
    BY <1>1, <1>2, <2>1, <2>2 DEF Books
  <2> QED
    BY <1>2, <1>3, <1>4, <2>2, <2>4, <2>5 DEF Moved
<1>8. CASE Unload(m)
  <2>1. /\ state' = [state EXCEPT ![m] = "exit"] /\ next' = next
        /\ rest' = [rest EXCEPT ![m] = Driver[m].exit] /\ state[m] = "live"
    BY <1>8 DEF Unload
  <2>2. CharTypes' /\ state'[m] = "exit" /\ rest'[m] = Driver[m].exit
    BY <1>1, <1>2, <2>1, ScriptTypes DEF CharTypes, States
  <2>3. Place(m)'
    BY <1>1, <1>2, <2>1, <2>2 DEF Place
  <2>4. Books(m)'
    BY <1>1, <1>2, <2>1, <2>2 DEF Books
  <2> QED
    BY <1>2, <1>3, <1>4, <2>2, <2>3, <2>4 DEF Moved
<1> QED
  BY <1>5, <1>6, <1>7, <1>8

\* An acquisition.
LEMMA TakeMoves ==
  ASSUME CharInv, NEW m \in Modules, Take(m)
  PROVE  Moved(m)
<1>1. CharTypes /\ OrphansForgotten /\ Place(m) /\ Books(m)
  BY DEF CharInv
<1>2. PICK k \in Nat \ {0}, r \in Resource :
        /\ k = next[m] /\ r = Step(m).res /\ k + 1 \in 1..(Len(Driver[m].init) + 1)
        /\ Acquired(m, k + 1, r)
  <2>1. next[m] \in 1..Len(Driver[m].init) /\ Step(m).do = "take"
    BY <1>1, ScriptTypes DEF Take, Initialising, Place
  <2>2. Step(m).res \in Resource /\ Acquired(m, next[m] + 1, Step(m).res)
    BY SMTT(60), <2>1, ScriptTypes, AcquiredGrows DEF Step
  <2>3. next[m] \in Nat \ {0} /\ next[m] + 1 \in 1..(Len(Driver[m].init) + 1)
    BY <2>1, ScriptTypes
  <2> QED
    BY <2>2, <2>3
<1>3. /\ UNCHANGED <<present, state, rest, orphans, file>> /\ state[m] = "init"
      /\ next' = [next EXCEPT ![m] = @ + 1]
      /\ held' = [held EXCEPT ![m] = @ \cup {r}]
      /\ my_class' = my_class \/ my_class' = [my_class EXCEPT ![m] = "class"]
  BY <1>2 DEF Take, Initialising
<1>4. CharTypes'
  <2>1. my_class' \in [Modules -> {"unset", "class", "error", "freed"}]
    BY <1>1, <1>3 DEF CharTypes
  <2>2. next' \in [Modules -> Nat] /\ held' \in [Modules -> SUBSET Resource]
    BY <1>1, <1>3 DEF CharTypes
  <2> QED
    BY <1>1, <1>3, <2>1, <2>2 DEF CharTypes
<1>5. /\ next'[m] = k + 1 /\ held'[m] = held[m] \cup {r}
      /\ \A n \in Modules \ {m} : next'[n] = next[n] /\ held'[n] = held[n]
  BY <1>1, <1>2, <1>3 DEF CharTypes
<1>6. OrphansForgotten'
  BY <1>1, <1>3 DEF OrphansForgotten
<1>7. Place(m)'
  BY <1>1, <1>2, <1>3, <1>5 DEF Place
<1>8. Books(m)'
  BY <1>1, <1>2, <1>3, <1>5, AcquiredGrows DEF Books
<1> QED
  BY <1>3, <1>4, <1>5, <1>6, <1>7, <1>8 DEF Moved

\* ModuleInit jumps to a label.
LEMMA UnwindMoves ==
  ASSUME CharInv, NEW m \in Modules, Unwind(m), Failable(m, next[m]), state[m] = "init",
         UNCHANGED <<present, next, held, orphans, file>>, CharTypes'
  PROVE  Moved(m)
<1>1. CharTypes /\ OrphansForgotten /\ Place(m) /\ Books(m)
  BY DEF CharInv
<1>2. /\ state'[m] = "unwind" /\ rest'[m] = Driver[m].unwind[next[m]]
      /\ \A n \in Modules \ {m} : state'[n] = state[n] /\ rest'[n] = rest[n]
  BY <1>1 DEF Unwind, CharTypes
<1>3. Place(m)'
  BY <1>1, <1>2 DEF Place
<1>4. Books(m)'
  BY <1>1, <1>2 DEF Books
<1>5. OrphansForgotten'
  BY <1>1 DEF OrphansForgotten
<1> QED
  BY <1>2, <1>3, <1>4, <1>5 DEF Moved

\* A failure: ModuleInit unwinds, or goes on without noticing.
LEMMA FailureMoves ==
  ASSUME CharInv, NEW m \in Modules, TakeFails(m) \/ OutputFails(m)
  PROVE  Moved(m)
<1>1. CharTypes /\ OrphansForgotten /\ Place(m) /\ Books(m)
  BY DEF CharInv
<1>2. /\ next[m] \in 1..Len(Driver[m].init) /\ state[m] = "init" /\ next[m] \in Nat \ {0}
      /\ next[m] + 1 \in 1..(Len(Driver[m].init) + 1)
      /\ Driver[m].unwind[next[m]] \in Releases
  BY <1>1, ScriptTypes DEF TakeFails, OutputFails, Initialising, Place
<1>3. /\ UNCHANGED <<present, held, orphans, file>>
      /\ my_class' \in [Modules -> {"unset", "class", "error", "freed"}]
  BY <1>1 DEF TakeFails, OutputFails, CharTypes
<1>4. ASSUME Unwind(m), next' = next, Failable(m, next[m]) PROVE Moved(m)
  <2>1. state' = [state EXCEPT ![m] = "unwind"]
          /\ rest' = [rest EXCEPT ![m] = Driver[m].unwind[next[m]]]
    BY <1>4 DEF Unwind
  <2>2. CharTypes'
    BY <1>1, <1>2, <1>3, <1>4, <2>1 DEF CharTypes, States
  <2> QED
    BY <1>2, <1>3, <1>4, <2>2, UnwindMoves
<1>5. CASE OutputFails(m)
  BY <1>2, <1>4, <1>5 DEF OutputFails, Initialising, Failable, Step
<1>6. CASE TakeFails(m) /\ Noticed(Step(m).res)
  BY <1>2, <1>4, <1>6 DEF TakeFails, Initialising, Failable, Step
<1>7. CASE TakeFails(m) /\ ~Noticed(Step(m).res)
  <2>1. next' = [next EXCEPT ![m] = @ + 1] /\ UNCHANGED <<state, rest>>
    BY <1>7 DEF TakeFails
  <2>2. CharTypes' /\ next'[m] = next[m] + 1 /\ \A n \in Modules \ {m} : next'[n] = next[n]
    BY <1>1, <1>3, <2>1 DEF CharTypes
  <2>3. Place(m)'
    BY <1>1, <1>2, <1>3, <2>1, <2>2 DEF Place
  <2>4. Books(m)'
    BY <1>1, <1>2, <1>3, <2>1, <2>2, AcquiredGrows DEF Books
  <2>5. OrphansForgotten'
    BY <1>1, <1>3 DEF OrphansForgotten
  <2> QED
    BY <1>3, <2>1, <2>2, <2>3, <2>4, <2>5 DEF Moved
<1> QED
  BY <1>5, <1>6, <1>7

\* A release: the rest of the list is shorter by what is no longer held.
LEMMA ReleaseMoves ==
  ASSUME CharInv, NEW m \in Modules, Release(m)
  PROVE  Moved(m)
<1>1. CharTypes /\ OrphansForgotten /\ Place(m) /\ Books(m)
  BY DEF CharInv
<1>2. rest[m] \in Releases /\ rest[m] # <<>> /\ state[m] \in {"unwind", "exit"}
  BY <1>1 DEF CharTypes, Release, Releasing
<1>3. PICK r \in Resource \cup {Beyond} : r = Head(rest[m])
  BY <1>2, TailLists
<1>4. /\ Released(m, r) /\ rest' = [rest EXCEPT ![m] = Tail(@)]
      /\ UNCHANGED <<present, state, next, file>>
  BY <1>3 DEF Release
<1>5. /\ held' \in [Modules -> SUBSET Resource]
      /\ my_class' \in [Modules -> {"unset", "class", "error", "freed"}]
      /\ orphans' \subseteq orphans /\ r \notin held'[m]
      /\ \A n \in Modules : held'[n] \subseteq held[n]
  BY <1>1, <1>4, ReleasedEffect
<1>6. Tail(rest[m]) \in Releases
        /\ \A x : Listed(rest[m], x) <=> x = r \/ Listed(Tail(rest[m]), x)
  BY <1>2, <1>3, TailLists
<1>7. rest'[m] = Tail(rest[m]) /\ \A n \in Modules \ {m} : rest'[n] = rest[n]
  BY <1>1, <1>4 DEF CharTypes
<1>8. CharTypes'
  BY <1>1, <1>4, <1>5, <1>6 DEF CharTypes
<1>9. Place(m)'
  BY <1>1, <1>2, <1>4 DEF Place
<1>10. Books(m)'
  BY <1>1, <1>4, <1>5, <1>6, <1>7 DEF Books
<1>11. OrphansForgotten'
  BY <1>1, <1>5 DEF OrphansForgotten
<1> QED
  BY <1>4, <1>5, <1>7, <1>8, <1>9, <1>10, <1>11 DEF Moved

\* ModuleInit releases something on its way.
LEMMA DropMoves ==
  ASSUME CharInv, NEW m \in Modules, Drop(m)
  PROVE  Moved(m)
<1>1. CharTypes /\ OrphansForgotten /\ Place(m) /\ Books(m)
  BY DEF CharInv
<1>2. /\ next[m] \in 1..Len(Driver[m].init) /\ state[m] = "init" /\ next[m] \in Nat \ {0}
      /\ next[m] + 1 \in 1..(Len(Driver[m].init) + 1)
  BY <1>1, ScriptTypes DEF Drop, Initialising, Place
<1>3. Step(m).res \in Resource \cup {Beyond}
  BY <1>2, ScriptTypes DEF Step
<1>4. /\ Released(m, Step(m).res) /\ next' = [next EXCEPT ![m] = @ + 1]
      /\ UNCHANGED <<present, state, rest, file>>
  BY DEF Drop
<1>5. /\ held' \in [Modules -> SUBSET Resource]
      /\ my_class' \in [Modules -> {"unset", "class", "error", "freed"}]
      /\ orphans' \subseteq orphans
      /\ \A n \in Modules : held'[n] \subseteq held[n]
  BY <1>1, <1>3, <1>4, ReleasedEffect
<1>6. next'[m] = next[m] + 1 /\ \A n \in Modules \ {m} : next'[n] = next[n]
  BY <1>1, <1>4 DEF CharTypes
<1>7. CharTypes'
  <2>1. next' \in [Modules -> Nat]
    BY <1>1, <1>4 DEF CharTypes
  <2>2. UNCHANGED <<present, state, rest, file>> /\ orphans' \subseteq Resource
    BY <1>1, <1>4, <1>5 DEF CharTypes
  <2> QED
    BY <1>1, <1>5, <2>1, <2>2 DEF CharTypes
<1>8. Place(m)'
  BY <1>1, <1>2, <1>4, <1>6 DEF Place
<1>9. Books(m)'
  BY <1>1, <1>2, <1>4, <1>5, <1>6, AcquiredGrows DEF Books
<1>10. OrphansForgotten'
  BY <1>1, <1>5 DEF OrphansForgotten
<1> QED
  BY <1>4, <1>5, <1>6, <1>7, <1>8, <1>9, <1>10 DEF Moved

\* An oops leaves everything where it is.
LEMMA CrashMoves ==
  ASSUME CharInv, NEW m \in Modules, Crash(m)
  PROVE  Moved(m)
<1>1. CharTypes /\ OrphansForgotten /\ Place(m) /\ Books(m)
  BY DEF CharInv
<1>2. /\ state' = [state EXCEPT ![m] = "crashed"] /\ state[m] \in {"init", "unwind", "exit"}
      /\ UNCHANGED <<present, next, rest, my_class, held, orphans, file>>
  BY DEF Crash, Initialising, Releasing
<1>3. CharTypes' /\ state'[m] = "crashed" /\ \A n \in Modules \ {m} : state'[n] = state[n]
  BY <1>1, <1>2 DEF CharTypes, States
<1>4. Place(m)' /\ Books(m)' /\ OrphansForgotten'
  BY <1>1, <1>2, <1>3 DEF Place, Books, OrphansForgotten
<1> QED
  BY <1>2, <1>3, <1>4 DEF Moved

\* What is left when a module goes is what its label or its ModuleExit leaves out.
LEMMA LeftIsForgotten ==
  ASSUME CharInv, NEW m \in Modules, state[m] \in {"unwind", "exit"}, rest[m] = <<>>,
         NEW r \in held[m]
  PROVE  /\ Forgotten(m, r)
         /\ state[m] = "exit" =>
              Acquired(m, Len(Driver[m].init) + 1, r) /\ ~Listed(Driver[m].exit, r)
<1>1. Place(m) /\ Books(m)
  BY DEF CharInv
<1>2. ~Listed(rest[m], r)
  BY DEF Listed
<1>3. CASE state[m] = "unwind"
  <2>1. Failable(m, next[m]) /\ Acquired(m, next[m], r)
          /\ ~Listed(Driver[m].unwind[next[m]], r)
    BY <1>1, <1>2, <1>3 DEF Place, Books
  <2> QED
    BY <1>3, <2>1 DEF Forgotten, Failable
<1>4. CASE state[m] = "exit"
  BY <1>1, <1>2, <1>4 DEF Place, Books, Forgotten
<1> QED
  BY <1>3, <1>4

\* The module goes: what it still holds is what its lists leave out.
LEMMA GoneMoves ==
  ASSUME CharInv, NEW m \in Modules, Gone(m)
  PROVE  Moved(m)
<1>1. CharTypes /\ OrphansForgotten /\ Place(m) /\ Books(m)
  BY DEF CharInv
<1>2. /\ state[m] \in {"unwind", "exit"} /\ rest[m] = <<>>
      /\ state' = [state EXCEPT ![m] = "absent"] /\ next' = [next EXCEPT ![m] = 1]
      /\ my_class' = [my_class EXCEPT ![m] = "unset"]
      /\ orphans' = orphans \cup held[m] /\ held' = [held EXCEPT ![m] = {}]
      /\ file' = [u \in Users |-> IF file[u] = m THEN FreedCode ELSE file[u]]
      /\ UNCHANGED <<present, rest>>
  BY DEF Gone
<1>3. CharTypes'
  <2>1. /\ state' \in [Modules -> States] /\ next' \in [Modules -> Nat]
        /\ my_class' \in [Modules -> {"unset", "class", "error", "freed"}]
        /\ held' \in [Modules -> SUBSET Resource] /\ orphans' \subseteq Resource
    BY <1>1, <1>2 DEF CharTypes, States
  <2>2. file' \in [Users -> Modules \cup {NoFile, FreedCode}]
    BY <1>1, <1>2 DEF CharTypes
  <2>3. present' \in Selections /\ rest' \in [Modules -> Releases]
    BY <1>1, <1>2 DEF CharTypes
  <2> QED
    BY <2>1, <2>2, <2>3 DEF CharTypes
<1>4. /\ state'[m] = "absent" /\ next'[m] = 1 /\ held'[m] = {}
      /\ \A n \in Modules \ {m} :
           state'[n] = state[n] /\ next'[n] = next[n] /\ held'[n] = held[n]
  BY <1>1, <1>2 DEF CharTypes
<1>5. Place(m)' /\ Books(m)'
  BY <1>1, <1>2, <1>4, ScriptTypes DEF Place, Books
<1>6. OrphansForgotten'
  <2>1. \A r \in held[m] : Forgotten(m, r)
    BY <1>2, LeftIsForgotten
  <2> QED
    BY <1>1, <1>2, <2>1 DEF OrphansForgotten
<1> QED
  BY <1>2, <1>3, <1>4, <1>5, <1>6 DEF Moved

\* Every step of a module.
LEMMA ModuleMoves ==
  ASSUME CharInv, NEW m \in Modules, Load(m) \/ Unload(m) \/ ModuleStep(m)
  PROVE  Moved(m)
  BY LoadMoves, TakeMoves, FailureMoves, ReleaseMoves, DropMoves, CrashMoves, GoneMoves
     DEF ModuleStep

\* A user touches its file only.
LEMMA UserMoves ==
  ASSUME CharInv, NEW u \in Users, Close(u) \/ \E m \in Modules : Open(u, m)
  PROVE  CharInv' /\ UNCHANGED <<present, state, next, rest, held, orphans>>
<1>1. /\ UNCHANGED <<present, state, next, rest, my_class, held, orphans>>
      /\ file' \in [Users -> Modules \cup {NoFile, FreedCode}]
  BY DEF Close, Open, CharInv, CharTypes
<1> QED
  BY <1>1 DEF CharInv, CharTypes, OrphansForgotten, Place, Books

\* The invariant is inductive.
LEMMA CharInvStep == CharInv /\ [Next]_vars => CharInv'
<1> SUFFICES ASSUME CharInv, [Next]_vars PROVE CharInv'
  OBVIOUS
<1>1. CASE UNCHANGED vars
  BY <1>1 DEF vars, CharInv, CharTypes, OrphansForgotten, Place, Books
<1> QED
  BY <1>1, ModuleMoves, MovedKeeps, UserMoves DEF Next

\* For any scripts, selections and users: every variable has its type, and a
\* module that is absent holds nothing.
THEOREM CharTypeCorrect == Spec => []TypeOK
<1>1. CharInv => TypeOK
  BY DEF CharInv, CharTypes, Place, TypeOK
<1> QED
  BY <1>1, CharInvInit, CharInvStep, PTL DEF Spec
-----------------------------------------------------------------------------
(* The scripts of the eight drivers.                                       *)

\* The drivers by name.
LEMMA DriverNames ==
  ASSUME Driver = AllDrivers
  PROVE  /\ Modules = {"gpio2", "lcd", "lcd_j", "lcd_my", "lcd_4bit", "read_write",
                       "read_write_my", "dev_nr"}
         /\ Driver["gpio2"] = Gpio2 /\ Driver["lcd"] = Lcd /\ Driver["lcd_j"] = LcdJ
         /\ Driver["lcd_my"] = LcdMy /\ Driver["lcd_4bit"] = Lcd4Bit
         /\ Driver["read_write"] = ReadWrite /\ Driver["read_write_my"] = ReadWriteMy
         /\ Driver["dev_nr"] = DevNr
  BY DEF AllDrivers, Modules

\* What a list put together from shorter ones has.
LEMMA ListedParts ==
  ASSUME NEW S, NEW s \in Seq(S), NEW t \in Seq(S)
  PROVE  /\ s \o t \in Seq(S)
         /\ \A r : Listed(s \o t, r) <=> Listed(s, r) \/ Listed(t, r)
<1>1. /\ s \o t \in Seq(S) /\ Len(s) \in Nat /\ Len(t) \in Nat
      /\ Len(s \o t) = Len(s) + Len(t)
      /\ \A i \in 1..Len(s) : (s \o t)[i] = s[i]
      /\ \A i \in 1..Len(t) : (s \o t)[Len(s) + i] = t[i]
  OBVIOUS
<1>2. \A i \in 1..(Len(s) + Len(t)) :
         i \in 1..Len(s) \/ (i - Len(s) \in 1..Len(t) /\ Len(s) + (i - Len(s)) = i)
  BY <1>1
<1>3. ASSUME NEW r, Listed(s \o t, r) PROVE Listed(s, r) \/ Listed(t, r)
  BY <1>1, <1>2, <1>3 DEF Listed
<1>4. ASSUME NEW r, Listed(s, r) PROVE Listed(s \o t, r)
  <2>1. PICK i \in 1..Len(s) : s[i] = r
    BY <1>4 DEF Listed
  <2>2. i \in 1..(Len(s) + Len(t))
    BY <1>1
  <2> QED
    BY <1>1, <2>1, <2>2 DEF Listed
<1>5. ASSUME NEW r, Listed(t, r) PROVE Listed(s \o t, r)
  <2>1. PICK i \in 1..Len(t) : t[i] = r
    BY <1>5 DEF Listed
  <2>2. Len(s) + i \in 1..(Len(s) + Len(t))
    BY <1>1
  <2> QED
    BY <1>1, <2>1, <2>2 DEF Listed
<1> QED
  BY <1>1, <1>3, <1>4, <1>5

\* The pins of a display.
LEMMA Pins ==
  /\ LastPin = 2 /\ Len(DisplayPins) = 2 /\ DisplayPins = <<Pin("30"), Pin("26")>>
  /\ PinsFrom(1) = <<Pin("30")>> /\ PinsFrom(2) = <<Pin("26"), Pin("30")>>
  /\ PinsBelow(1) = <<>> /\ PinsBelow(2) = <<Pin("30")>>
<1>1. LastPin = 2 /\ DisplayPins = <<Pin("30"), Pin("26")>>
  BY DEF LastPin, DisplayPins
<1>3. PinsFrom(1) = <<Pin("30")>> /\ PinsFrom(2) = <<Pin("26"), Pin("30")>>
  BY DEF PinsFrom, DisplayPins, Reverse
<1>4. PinsBelow(1) = <<>> /\ PinsBelow(2) = <<Pin("30")>>
  BY DEF PinsBelow, DisplayPins, Reverse
<1> QED
  BY <1>1, <1>3, <1>4

\* The script of a display driver, step by step and label by label.
IsDisplay(D, m, c, req, dir, exit) ==
    /\ Len(D.init) = 8
    /\ \A k \in 1..6 : D.init[k].do = "take"
    /\ D.init[7].do = "output" /\ D.init[8].do = "output"
    /\ D.init[1].res = Of("region", m) /\ D.init[2].res = Of("class", c)
    /\ D.init[3].res = Of("node", m) /\ D.init[4].res = Of("cdev", m)
    /\ D.init[5].res = Pin("30") /\ D.init[6].res = Pin("26")
    /\ D.unwind[1] = <<>>
    /\ D.unwind[5] = req[1] \o AddError(m, c)
    /\ D.unwind[6] = req[2] \o AddError(m, c)
    /\ D.unwind[7] = dir \o AddError(m, c) /\ D.unwind[8] = dir \o AddError(m, c)
    /\ D.exit = exit \o Exit(m, c)

\* Display puts such a script together.
LEMMA DisplayScript ==
  ASSUME NEW m, NEW c, NEW req, NEW dir, NEW exit
  PROVE  IsDisplay(Display(m, c, req, dir, exit), m, c, req, dir, exit)
<1>1. PICK D : D = Display(m, c, req, dir, exit)
  OBVIOUS
<1>2. D.init = Steps("take", Registered(m, c) \o DisplayPins) \o Steps("output", DisplayPins)
  BY <1>1 DEF Display
<1>3. /\ Len(D.init) = 8
      /\ \A k \in 1..6 : /\ D.init[k].do = "take"
                          /\ D.init[k].res = (Registered(m, c) \o DisplayPins)[k]
      /\ D.init[7].do = "output" /\ D.init[8].do = "output"
  BY <1>2, Pins DEF Steps, Registered
<1>4. /\ (Registered(m, c) \o DisplayPins)[1] = Of("region", m)
      /\ (Registered(m, c) \o DisplayPins)[2] = Of("class", c)
      /\ (Registered(m, c) \o DisplayPins)[3] = Of("node", m)
      /\ (Registered(m, c) \o DisplayPins)[4] = Of("cdev", m)
      /\ (Registered(m, c) \o DisplayPins)[5] = Pin("30")
      /\ (Registered(m, c) \o DisplayPins)[6] = Pin("26")
  BY Pins DEF Registered
<1>5. D.exit = exit \o Exit(m, c)
  BY <1>1 DEF Display
<1>6. PICK u : u = [k \in 1..4 |-> (IF k <= 2 THEN req[k] ELSE dir) \o AddError(m, c)]
  OBVIOUS
<1>7. D.unwind = Unwinds(u)
  BY <1>1, <1>6, Pins DEF Display
<1>8. /\ u[1] = req[1] \o AddError(m, c) /\ u[2] = req[2] \o AddError(m, c)
      /\ u[3] = dir \o AddError(m, c) /\ u[4] = dir \o AddError(m, c)
  <2>1. 1 \in 1..4 /\ 2 \in 1..4 /\ 3 \in 1..4 /\ 4 \in 1..4
          /\ 1 <= 2 /\ 2 <= 2 /\ ~(3 <= 2) /\ ~(4 <= 2)
    OBVIOUS
  <2> QED
    BY <1>6, <2>1
<1>9. PICK v : v = <<<<>>, <<>>, <<>>, <<>>>>
  OBVIOUS
<1>10. PICK S : S = {u[1], u[2], u[3], u[4], <<>>}
  OBVIOUS
<1>11. u \in Seq(S) /\ Len(u) = 4
  <2>1. \A k \in 1..4 : k = 1 \/ k = 2 \/ k = 3 \/ k = 4
    OBVIOUS
  <2>2. u \in [1..4 -> S]
    BY <1>6, <1>10, <2>1
  <2>3. u \in Seq(S)
    BY <2>2, SeqDef
  <2> QED
    BY <2>2, <2>3, LenProperties
<1>12. v \in Seq(S) /\ Len(v) = 4 /\ v[1] = <<>>
  BY <1>9, <1>10
<1>13. /\ (v \o u)[1] = v[1] /\ (v \o u)[5] = u[1] /\ (v \o u)[6] = u[2]
      /\ (v \o u)[7] = u[3] /\ (v \o u)[8] = u[4]
  <2>1. \A i \in 1..(Len(v) + Len(u)) :
           (v \o u)[i] = IF i <= Len(v) THEN v[i] ELSE u[i - Len(v)]
    BY <1>11, <1>12, ConcatProperties
  <2>2. Len(v) = 4 /\ Len(u) = 4 /\ 4 + 4 = 8
    BY <1>11, <1>12
  <2>3. \A i \in 1..8 : (v \o u)[i] = IF i <= 4 THEN v[i] ELSE u[i - 4]
    BY <2>1, <2>2, Zenon
  <2>4. ASSUME NEW i \in 1..8, NEW j \in 1..4, j = i - 4 PROVE (v \o u)[i] = u[j]
    <3>1. ~(i <= 4)
      BY <2>4
    <3> QED
      BY <2>3, <2>4, <3>1
  <2>5. /\ 1 \in 1..8 /\ 5 \in 1..8 /\ 6 \in 1..8 /\ 7 \in 1..8 /\ 8 \in 1..8
        /\ 1 \in 1..4 /\ 2 \in 1..4 /\ 3 \in 1..4 /\ 4 \in 1..4 /\ 1 <= 4
        /\ 1 = 5 - 4 /\ 2 = 6 - 4 /\ 3 = 7 - 4 /\ 4 = 8 - 4
    OBVIOUS
  <2>6. (v \o u)[1] = v[1]
    BY <2>3, <2>5
  <2>7. (v \o u)[5] = u[1] /\ (v \o u)[6] = u[2] /\ (v \o u)[7] = u[3] /\ (v \o u)[8] = u[4]
    BY <2>4, <2>5, Zenon
  <2> QED
    BY <2>6, <2>7
<1>14. D.unwind = v \o u
  BY <1>7, <1>9 DEF Unwinds
<1>15. /\ 1 \in 1..6 /\ 2 \in 1..6 /\ 3 \in 1..6 /\ 4 \in 1..6 /\ 5 \in 1..6 /\ 6 \in 1..6
  OBVIOUS
<1>16. /\ D.init[1].res = Of("region", m) /\ D.init[2].res = Of("class", c)
       /\ D.init[3].res = Of("node", m) /\ D.init[4].res = Of("cdev", m)
       /\ D.init[5].res = Pin("30") /\ D.init[6].res = Pin("26")
  BY <1>3, <1>4, <1>15
<1>17. /\ D.unwind[1] = <<>>
       /\ D.unwind[5] = req[1] \o AddError(m, c) /\ D.unwind[6] = req[2] \o AddError(m, c)
       /\ D.unwind[7] = dir \o AddError(m, c) /\ D.unwind[8] = dir \o AddError(m, c)
  BY <1>8, <1>13, <1>14, <1>12
<1> QED
  BY <1>1, <1>3, <1>5, <1>16, <1>17 DEF IsDisplay

\* What the lists of a driver with a class c may have.
Parts(m, c) ==
    {Of("node", m), Of("class", c), Of("region", m), Of("cdev", m),
     Pin("30"), Pin("26"), Pin("49"), Beyond}

\* The lists that AddError and Exit release.
LEMMA RegisteredLists ==
  ASSUME NEW m, NEW c
  PROVE  /\ AddError(m, c) \in Seq(Parts(m, c)) /\ Exit(m, c) \in Seq(Parts(m, c))
         /\ \A r : Listed(AddError(m, c), r) <=>
                     r \in {Of("node", m), Of("class", c), Of("region", m)}
         /\ \A r : Listed(Exit(m, c), r) <=>
                     r \in {Of("node", m), Of("class", c), Of("region", m), Of("cdev", m)}
<1>1. /\ Of("node", m) \in Parts(m, c) /\ Of("class", c) \in Parts(m, c)
      /\ Of("region", m) \in Parts(m, c) /\ Of("cdev", m) \in Parts(m, c)
  BY DEF Parts
<1>2. AddError(m, c) \in Seq(Parts(m, c)) /\ <<Of("cdev", m)>> \in Seq(Parts(m, c))
  BY <1>1 DEF AddError
<1>3. \A r : Listed(AddError(m, c), r) <=>
               r \in {Of("node", m), Of("class", c), Of("region", m)}
  <2>1. \A i \in 1..3 : i = 1 \/ i = 2 \/ i = 3
    OBVIOUS
  <2> QED
    BY <2>1 DEF AddError, Listed
<1>4. /\ Len(Exit(m, c)) = 4
      /\ Exit(m, c)[1] = Of("cdev", m) /\ Exit(m, c)[2] = Of("node", m)
      /\ Exit(m, c)[3] = Of("class", c) /\ Exit(m, c)[4] = Of("region", m)
  BY DEF Exit, AddError
<1>5. \A r : Listed(Exit(m, c), r) <=>
               r \in {Of("node", m), Of("class", c), Of("region", m), Of("cdev", m)}
  <2>1. \A i \in 1..4 : i = 1 \/ i = 2 \/ i = 3 \/ i = 4
    OBVIOUS
  <2>2. 1 \in 1..4 /\ 2 \in 1..4 /\ 3 \in 1..4 /\ 4 \in 1..4
    OBVIOUS
  <2> QED
    BY <1>4, <2>1, <2>2 DEF Listed
<1>6. Exit(m, c) \in Seq(Parts(m, c))
  BY <1>2, ConcatProperties DEF Exit
<1> QED
  BY <1>2, <1>3, <1>5, <1>6

\* Resources of different kinds, and different pins, are different.
LEMMA DifferentKinds ==
  /\ \A k, x, l, y : Of(k, x) = Of(l, y) <=> k = l /\ x = y
  /\ \A k, x : Of(k, x).kind = k /\ Of(k, x).id = x
  /\ \A x : Pin(x) = Of("pin", x) /\ Pin(x).kind = "pin"
  /\ Beyond.kind = "beyond"
  BY DEF Of, Pin, Beyond

\* What a display driver leaves behind when its request of pin 26, a direction
\* and ModuleExit free at least pin 30, and ModuleExit pin 26 as well.
LEMMA DisplayForgets ==
  ASSUME NEW m \in Modules, NEW c, NEW req, NEW dir, NEW exit,
         IsDisplay(Driver[m], m, c, req, dir, exit),
         req[1] \in Seq(Parts(m, c)), req[2] \in Seq(Parts(m, c)),
         dir \in Seq(Parts(m, c)), exit \in Seq(Parts(m, c)),
         Listed(req[2], Pin("30")), Listed(dir, Pin("30")),
         Listed(exit, Pin("30")), Listed(exit, Pin("26"))
  PROVE  /\ \A r : Forgotten(m, r) => r \in {Of("cdev", m), Pin("26")}
         /\ \A r : Acquired(m, Len(Driver[m].init) + 1, r) => Listed(Driver[m].exit, r)
         /\ \A k \in 1..Len(Driver[m].init) : Failable(m, k) => k \in {1, 5, 6, 7, 8}
<1>1. PICK D : D = Driver[m]
  OBVIOUS
<1>2. IsDisplay(D, m, c, req, dir, exit)
  BY <1>1
<1>3. \A k \in 1..8 : k \in {1, 2, 3, 4, 5, 6, 7, 8} /\ (k \notin 1..6 => k \in {7, 8})
  OBVIOUS
<1>4. \A k \in 1..8 : Failable(m, k) => k \in {1, 5, 6, 7, 8}
  <2>1. 2 \in 1..6 /\ 3 \in 1..6 /\ 4 \in 1..6
    OBVIOUS
  <2>2. ~Noticed(D.init[2].res) /\ ~Noticed(D.init[3].res) /\ ~Noticed(D.init[4].res)
    BY SMTT(60), <1>2, DifferentKinds DEF Noticed, IsDisplay
  <2>3. ~Failable(m, 2) /\ ~Failable(m, 3) /\ ~Failable(m, 4)
    BY <1>1, <1>2, <2>1, <2>2 DEF Failable, IsDisplay
  <2> QED
    BY <1>3, <2>3
<1>5. \A r : Acquired(m, 9, r) =>
        r \in {Of("region", m), Of("class", c), Of("node", m), Of("cdev", m),
               Pin("30"), Pin("26")}
  <2>1. \A j \in 1..(9 - 1) : j \in 1..8
    OBVIOUS
  <2> QED
    BY SMTT(60), <1>1, <1>2, <1>3, <2>1 DEF Acquired, IsDisplay
<1>6. \A r : ~Acquired(m, 1, r)
  BY DEF Acquired, IsDisplay
<1>7. \A k \in 1..8 : \A r : Acquired(m, k, r) => Acquired(m, 9, r)
  <2>1. \A k \in 1..8 : \A j \in 1..(k - 1) : j \in 1..(9 - 1)
    OBVIOUS
  <2> QED
    BY <2>1 DEF Acquired, IsDisplay
<1>8. \A r : Acquired(m, 5, r) => r # Pin("30") /\ r # Pin("26")
  <2>1. \A j \in 1..(5 - 1) : j \in {1, 2, 3, 4}
    OBVIOUS
  <2>2. \A j \in {1, 2, 3, 4} : D.init[j].res # Pin("30") /\ D.init[j].res # Pin("26")
    BY SMTT(60), <1>2, DifferentKinds DEF IsDisplay
  <2> QED
    BY <1>1, <2>1, <2>2 DEF Acquired, IsDisplay
<1>9. ASSUME NEW k \in {5, 6, 7, 8}, NEW r, Acquired(m, k, r), ~Listed(D.unwind[k], r)
      PROVE  r \in {Of("cdev", m), Pin("26")}
  <2>1. PICK s \in Seq(Parts(m, c)) : /\ D.unwind[k] = s \o AddError(m, c)
                                      /\ k # 5 => Listed(s, Pin("30"))
    BY <1>2 DEF IsDisplay
  <2>2. Listed(D.unwind[k], r) <=> Listed(s, r) \/ Listed(AddError(m, c), r)
    BY <2>1, ListedParts, RegisteredLists
  <2>3. r \notin {Of("node", m), Of("class", c), Of("region", m)}
    BY <1>9, <2>2, RegisteredLists
  <2>4. k \in 1..8 /\ Acquired(m, 9, r)
    BY <1>7, <1>9
  <2>5. r # Pin("30")
    BY <1>8, <1>9, <2>1, <2>2
  <2> QED
    BY <1>5, <2>3, <2>4, <2>5
<1>10. ASSUME NEW r, Acquired(m, 9, r) PROVE Listed(D.exit, r)
  <2>1. Listed(D.exit, r) <=> Listed(exit, r) \/ Listed(Exit(m, c), r)
    BY <1>2, ListedParts, RegisteredLists DEF IsDisplay
  <2>2. CASE r \in {Pin("30"), Pin("26")}
    BY <2>1, <2>2
  <2>3. CASE r \in {Of("region", m), Of("class", c), Of("node", m), Of("cdev", m)}
    <3>1. Listed(Exit(m, c), r)
      BY <2>3, RegisteredLists
    <3> QED
      BY <2>1, <3>1
  <2> QED
    BY <1>5, <1>10, <2>2, <2>3
<1>11. 8 + 1 = 9
  OBVIOUS
<1>12. ASSUME NEW r, Forgotten(m, r) PROVE r \in {Of("cdev", m), Pin("26")}
  <2>1. CASE \E k \in 1..8 : Failable(m, k) /\ Acquired(m, k, r) /\ ~Listed(D.unwind[k], r)
    BY <1>4, <1>6, <1>9, <2>1
  <2>2. ~(Acquired(m, 9, r) /\ ~Listed(D.exit, r))
    BY <1>10
  <2> QED
    BY <1>1, <1>2, <1>11, <1>12, <2>1, <2>2 DEF Forgotten, IsDisplay
<1> QED
  BY <1>1, <1>2, <1>4, <1>10, <1>11, <1>12 DEF IsDisplay

\* The scripts of the other drivers.
LEMMA Gpio2Script ==
  /\ Len(Gpio2.init) = 8
  /\ \A k \in {1, 2, 3, 4, 5, 7} : Gpio2.init[k].do = "take"
  /\ Gpio2.init[6].do = "output" /\ Gpio2.init[8].do = "output"
  /\ Gpio2.init[1].res = Of("region", "gpio2")
  /\ Gpio2.init[2].res = Of("class", "GPIOModuleClass")
  /\ Gpio2.init[3].res = Of("node", "gpio2") /\ Gpio2.init[4].res = Of("cdev", "gpio2")
  /\ Gpio2.init[5].res = Pin("49") /\ Gpio2.init[7].res = Pin("30")
  /\ Gpio2.unwind[1] = <<>>
  /\ Gpio2.unwind[5] = AddError("gpio2", "GPIOModuleClass")
  /\ Gpio2.unwind[6] = <<Pin("49")>> \o AddError("gpio2", "GPIOModuleClass")
  /\ Gpio2.unwind[7] = AddError("gpio2", "GPIOModuleClass")
  /\ Gpio2.unwind[8] = <<Pin("30"), Pin("49")>> \o AddError("gpio2", "GPIOModuleClass")
  /\ Gpio2.exit = <<Pin("30"), Pin("49")>> \o Exit("gpio2", "GPIOModuleClass")
<1>1. /\ Len(Gpio2.init) = 8
      /\ Gpio2.init[6].do = "output" /\ Gpio2.init[8].do = "output"
      /\ Gpio2.init[1].do = "take" /\ Gpio2.init[2].do = "take" /\ Gpio2.init[3].do = "take"
      /\ Gpio2.init[4].do = "take" /\ Gpio2.init[5].do = "take" /\ Gpio2.init[7].do = "take"
  BY DEF Gpio2, Registered, Steps
<1>2. /\ Gpio2.init[1].res = Of("region", "gpio2")
      /\ Gpio2.init[2].res = Of("class", "GPIOModuleClass")
      /\ Gpio2.init[3].res = Of("node", "gpio2") /\ Gpio2.init[4].res = Of("cdev", "gpio2")
      /\ Gpio2.init[5].res = Pin("49") /\ Gpio2.init[7].res = Pin("30")
  BY DEF Gpio2, Registered, Steps
<1>3. /\ Gpio2.unwind[1] = <<>>
      /\ Gpio2.unwind[5] = AddError("gpio2", "GPIOModuleClass")
      /\ Gpio2.unwind[6] = <<Pin("49")>> \o AddError("gpio2", "GPIOModuleClass")
      /\ Gpio2.unwind[7] = AddError("gpio2", "GPIOModuleClass")
      /\ Gpio2.unwind[8] = <<Pin("30"), Pin("49")>> \o AddError("gpio2", "GPIOModuleClass")
  BY DEF Gpio2, Unwinds
<1>4. Gpio2.exit = <<Pin("30"), Pin("49")>> \o Exit("gpio2", "GPIOModuleClass")
  BY DEF Gpio2
<1> QED
  BY <1>1, <1>2, <1>3, <1>4

\* read_write.c, step by step.
LEMMA ReadWriteScript ==
  /\ Len(ReadWrite.init) = 4
  /\ \A k \in {1, 2, 3, 4} : ReadWrite.init[k].do = "take"
  /\ ReadWrite.init[1].res = Of("region", "read_write")
  /\ ReadWrite.init[2].res = Of("class", "MyModuleClass")
  /\ ReadWrite.init[3].res = Of("node", "read_write")
  /\ ReadWrite.init[4].res = Of("cdev", "read_write")
  /\ ReadWrite.unwind[1] = <<>>
  /\ ReadWrite.exit = Exit("read_write", "MyModuleClass")
<1>1. /\ Len(ReadWrite.init) = 4
      /\ ReadWrite.init[1].do = "take" /\ ReadWrite.init[2].do = "take"
      /\ ReadWrite.init[3].do = "take" /\ ReadWrite.init[4].do = "take"
  BY DEF ReadWrite, Registered, Steps
<1>2. /\ ReadWrite.init[1].res = Of("region", "read_write")
      /\ ReadWrite.init[2].res = Of("class", "MyModuleClass")
      /\ ReadWrite.init[3].res = Of("node", "read_write")
      /\ ReadWrite.init[4].res = Of("cdev", "read_write")
  BY DEF ReadWrite, Registered, Steps
<1>3. ReadWrite.unwind[1] = <<>> /\ ReadWrite.exit = Exit("read_write", "MyModuleClass")
  BY DEF ReadWrite, Unwinds
<1> QED
  BY <1>1, <1>2, <1>3

\* read_write_my.c, step by step.
LEMMA ReadWriteMyScript ==
  /\ Len(ReadWriteMy.init) = 6
  /\ \A k \in {1, 2, 3, 4} : ReadWriteMy.init[k].do = "take"
  /\ ReadWriteMy.init[5].do = "drop" /\ ReadWriteMy.init[6].do = "drop"
  /\ ReadWriteMy.init[1].res = Of("region", "read_write_my")
  /\ ReadWriteMy.init[2].res = Of("class", "MyModuleClass")
  /\ ReadWriteMy.init[3].res = Of("node", "read_write_my")
  /\ ReadWriteMy.init[4].res = Of("cdev", "read_write_my")
  /\ ReadWriteMy.init[5].res = Of("node", "read_write_my")
  /\ ReadWriteMy.init[6].res = Of("class", "MyModuleClass")
  /\ ReadWriteMy.unwind[1] = <<>>
  /\ ReadWriteMy.exit = <<Of("cdev", "read_write_my"), Of("node", "read_write_my"),
                          Of("class", "MyModuleClass"), Of("major", "160")>>
<1>1. /\ Len(ReadWriteMy.init) = 6
      /\ ReadWriteMy.init[1].do = "take" /\ ReadWriteMy.init[2].do = "take"
      /\ ReadWriteMy.init[3].do = "take" /\ ReadWriteMy.init[4].do = "take"
      /\ ReadWriteMy.init[5].do = "drop" /\ ReadWriteMy.init[6].do = "drop"
  BY DEF ReadWriteMy, Registered, Steps
<1>2. /\ ReadWriteMy.init[1].res = Of("region", "read_write_my")
      /\ ReadWriteMy.init[2].res = Of("class", "MyModuleClass")
      /\ ReadWriteMy.init[3].res = Of("node", "read_write_my")
      /\ ReadWriteMy.init[4].res = Of("cdev", "read_write_my")
      /\ ReadWriteMy.init[5].res = Of("node", "read_write_my")
      /\ ReadWriteMy.init[6].res = Of("class", "MyModuleClass")
  BY DEF ReadWriteMy, Registered, Steps
<1>3. ReadWriteMy.unwind[1] = <<>>
  BY DEF ReadWriteMy, Unwinds
<1>4. ReadWriteMy.exit = <<Of("cdev", "read_write_my"), Of("node", "read_write_my"),
                           Of("class", "MyModuleClass"), Of("major", "160")>>
  BY DEF ReadWriteMy
<1> QED
  BY <1>1, <1>2, <1>3, <1>4

\* dev_nr.c, step by step.
LEMMA DevNrScript ==
  /\ Len(DevNr.init) = 1
  /\ DevNr.init[1].do = "take" /\ DevNr.init[1].res = Of("major", "160")
  /\ DevNr.unwind[1] = <<>>
  /\ DevNr.exit = <<Of("major", "160")>>
  BY DEF DevNr, Steps

\* A short list has what it is made of.
LEMMA ListedShort ==
  ASSUME NEW a, NEW b
  PROVE  /\ \A r : ~Listed(<<>>, r)
         /\ \A r : Listed(<<a>>, r) <=> r = a
         /\ \A r : Listed(<<a, b>>, r) <=> r \in {a, b}
<1>1. \A i \in 1..2 : i = 1 \/ i = 2
  OBVIOUS
<1> QED
  BY <1>1 DEF Listed

\* The lists of pins, for any class.
LEMMA PinLists ==
  ASSUME NEW m, NEW c
  PROVE  /\ PinsFrom(1) \in Seq(Parts(m, c)) /\ PinsFrom(2) \in Seq(Parts(m, c))
         /\ PinsBelow(1) \in Seq(Parts(m, c)) /\ PinsBelow(2) \in Seq(Parts(m, c))
         /\ DisplayPins \in Seq(Parts(m, c))
         /\ <<Beyond>> \o PinsFrom(2) \in Seq(Parts(m, c))
         /\ Append(DisplayPins, Beyond) \in Seq(Parts(m, c))
         /\ Listed(PinsFrom(2), Pin("30")) /\ Listed(PinsBelow(2), Pin("30"))
         /\ Listed(DisplayPins, Pin("30")) /\ Listed(DisplayPins, Pin("26"))
         /\ Listed(<<Beyond>> \o PinsFrom(2), Pin("30"))
         /\ Listed(Append(DisplayPins, Beyond), Pin("30"))
         /\ Listed(Append(DisplayPins, Beyond), Pin("26"))
<1>1. Pin("30") \in Parts(m, c) /\ Pin("26") \in Parts(m, c) /\ Beyond \in Parts(m, c)
  BY DEF Parts
<1>2. /\ PinsFrom(1) \in Seq(Parts(m, c)) /\ PinsFrom(2) \in Seq(Parts(m, c))
      /\ PinsBelow(1) \in Seq(Parts(m, c)) /\ PinsBelow(2) \in Seq(Parts(m, c))
      /\ DisplayPins \in Seq(Parts(m, c)) /\ <<Beyond>> \in Seq(Parts(m, c))
  <2>1. /\ <<>> \in Seq(Parts(m, c)) /\ <<Pin("30")>> \in Seq(Parts(m, c))
        /\ <<Pin("26"), Pin("30")>> \in Seq(Parts(m, c))
        /\ <<Pin("30"), Pin("26")>> \in Seq(Parts(m, c)) /\ <<Beyond>> \in Seq(Parts(m, c))
    BY <1>1
  <2> QED
    BY <2>1, Pins, Zenon
<1>3. /\ <<Beyond>> \o PinsFrom(2) \in Seq(Parts(m, c))
      /\ Append(DisplayPins, Beyond) \in Seq(Parts(m, c))
  BY <1>1, <1>2, ListedParts
<1>4. /\ Listed(PinsFrom(2), Pin("30")) /\ Listed(PinsBelow(2), Pin("30"))
      /\ Listed(DisplayPins, Pin("30")) /\ Listed(DisplayPins, Pin("26"))
  <2>1. /\ Listed(<<Pin("30")>>, Pin("30")) /\ Listed(<<Pin("26"), Pin("30")>>, Pin("30"))
        /\ Listed(<<Pin("30"), Pin("26")>>, Pin("30"))
        /\ Listed(<<Pin("30"), Pin("26")>>, Pin("26"))
    <3>1. Listed(<<Pin("30")>>, Pin("30"))
      BY ListedShort, Zenon
    <3>2. Listed(<<Pin("26"), Pin("30")>>, Pin("30"))
      BY ListedShort, Zenon
    <3>3. /\ Listed(<<Pin("30"), Pin("26")>>, Pin("30"))
          /\ Listed(<<Pin("30"), Pin("26")>>, Pin("26"))
      BY ListedShort, Zenon
    <3> QED
      BY <3>1, <3>2, <3>3
  <2> QED
    BY <2>1, Pins, Zenon
<1>5. Listed(<<Beyond>> \o PinsFrom(2), Pin("30"))
  BY <1>2, <1>4, ListedParts
<1>6. Listed(Append(DisplayPins, Beyond), Pin("30")) /\ Listed(Append(DisplayPins, Beyond), Pin("26"))
  <2>1. /\ Len(Append(DisplayPins, Beyond)) = 3
        /\ Append(DisplayPins, Beyond)[1] = Pin("30")
        /\ Append(DisplayPins, Beyond)[2] = Pin("26")
    BY DEF DisplayPins
  <2>2. 1 \in 1..3 /\ 2 \in 1..3
    OBVIOUS
  <2> QED
    BY <2>1, <2>2 DEF Listed
<1> QED
  BY <1>2, <1>3, <1>4, <1>5, <1>6

\* The displays: which script each has.
LEMMA DisplayKinds ==
  ASSUME Driver = AllDrivers, NEW m \in {"lcd", "lcd_j", "lcd_my", "lcd_4bit"}
  PROVE  \E c, req, dir, exit :
           /\ IsDisplay(Driver[m], m, c, req, dir, exit)
           /\ req[1] \in Seq(Parts(m, c)) /\ req[2] \in Seq(Parts(m, c))
           /\ dir \in Seq(Parts(m, c)) /\ exit \in Seq(Parts(m, c))
           /\ Listed(req[2], Pin("30")) /\ Listed(dir, Pin("30"))
           /\ Listed(exit, Pin("30")) /\ Listed(exit, Pin("26"))
           /\ m = "lcd_my" =>
                /\ req[1] = <<>> /\ req[2] = <<Pin("30")>> /\ dir = <<Pin("30")>>
                /\ exit = <<Pin("30"), Pin("26")>>
<1>1. 1 \in 1..LastPin /\ 2 \in 1..LastPin /\ LastPin = 2
  BY Pins
<1>2. /\ FreedFrom[1] = PinsFrom(1) /\ FreedFrom[2] = PinsFrom(2)
      /\ FreedBelow[1] = PinsBelow(1) /\ FreedBelow[2] = PinsBelow(2)
  BY <1>1 DEF FreedFrom, FreedBelow
<1>3. PICK c, req, dir, exit :
        /\ Driver[m] = Display(m, c, req, dir, exit)
        /\ req \in {FreedFrom, FreedBelow}
        /\ dir \in {PinsFrom(2), PinsBelow(2), <<Beyond>> \o PinsFrom(2)}
        /\ exit \in {DisplayPins, Append(DisplayPins, Beyond)}
        /\ m = "lcd_my" => req = FreedBelow /\ dir = PinsBelow(2) /\ exit = DisplayPins
  <2>1. CASE m = "lcd"
    BY <1>1, <2>1, DriverNames DEF Lcd
  <2>2. CASE m = "lcd_j"
    BY <1>1, <2>2, DriverNames DEF LcdJ
  <2>3. CASE m = "lcd_my"
    BY <1>1, <2>3, DriverNames DEF LcdMy
  <2>4. CASE m = "lcd_4bit"
    BY <1>1, <2>4, DriverNames DEF Lcd4Bit
  <2> QED
    BY <2>1, <2>2, <2>3, <2>4
<1>4. /\ req[1] \in Seq(Parts(m, c)) /\ req[2] \in Seq(Parts(m, c))
      /\ dir \in Seq(Parts(m, c)) /\ exit \in Seq(Parts(m, c))
      /\ Listed(req[2], Pin("30")) /\ Listed(dir, Pin("30"))
      /\ Listed(exit, Pin("30")) /\ Listed(exit, Pin("26"))
  BY <1>2, <1>3, PinLists, Zenon
<1>5. m = "lcd_my" =>
        /\ req[1] = <<>> /\ req[2] = <<Pin("30")>> /\ dir = <<Pin("30")>>
        /\ exit = <<Pin("30"), Pin("26")>>
  BY <1>2, <1>3, Pins, Zenon
<1>6. IsDisplay(Driver[m], m, c, req, dir, exit)
  BY <1>3, DisplayScript
<1> QED
  BY <1>4, <1>5, <1>6

\* What the four displays leave behind.
LEMMA DisplaysForget ==
  ASSUME Driver = AllDrivers, NEW m \in {"lcd", "lcd_j", "lcd_my", "lcd_4bit"}
  PROVE  /\ \A r : Forgotten(m, r) => r \in {Of("cdev", m), Pin("26")}
         /\ \A r : Acquired(m, Len(Driver[m].init) + 1, r) => Listed(Driver[m].exit, r)
         /\ \A k \in 1..Len(Driver[m].init) : Failable(m, k) => k \in {1, 5, 6, 7, 8}
<1>1. m \in Modules
  BY DriverNames
<1>2. PICK c, req, dir, exit :
        /\ IsDisplay(Driver[m], m, c, req, dir, exit)
        /\ req[1] \in Seq(Parts(m, c)) /\ req[2] \in Seq(Parts(m, c))
        /\ dir \in Seq(Parts(m, c)) /\ exit \in Seq(Parts(m, c))
        /\ Listed(req[2], Pin("30")) /\ Listed(dir, Pin("30"))
        /\ Listed(exit, Pin("30")) /\ Listed(exit, Pin("26"))
  BY DisplayKinds
<1> QED
  BY <1>1, <1>2, DisplayForgets

\* What gpio2.c leaves behind: its cdev, and GPIO_W when GPIO_R is refused.
LEMMA Gpio2Forgets ==
  ASSUME Driver = AllDrivers
  PROVE  /\ \A r : Forgotten("gpio2", r) => r \in {Of("cdev", "gpio2"), Pin("49")}
         /\ \A r : Acquired("gpio2", Len(Driver["gpio2"].init) + 1, r) =>
                     Listed(Driver["gpio2"].exit, r)
         /\ \A k \in 1..Len(Driver["gpio2"].init) :
              Failable("gpio2", k) => k \in {1, 5, 6, 7, 8}
<1>1. PICK m, c : m = "gpio2" /\ c = "GPIOModuleClass"
  OBVIOUS
<1>2. Driver[m] = Gpio2 /\ Len(Driver[m].init) = 8
  BY <1>1, DriverNames, Gpio2Script
<1>3. \A k \in 1..8 : k \in {1, 2, 3, 4, 5, 6, 7, 8}
  OBVIOUS
<1>4. \A k \in 1..8 : Failable(m, k) => k \in {1, 5, 6, 7, 8}
  <2>1. /\ ~Noticed(Gpio2.init[2].res) /\ ~Noticed(Gpio2.init[3].res)
        /\ ~Noticed(Gpio2.init[4].res)
    BY Gpio2Script, DifferentKinds DEF Noticed
  <2>2. ~Failable(m, 2) /\ ~Failable(m, 3) /\ ~Failable(m, 4)
    BY <1>2, <2>1, Gpio2Script DEF Failable
  <2> QED
    BY <1>3, <2>2
<1>5. \A r : Acquired(m, 9, r) =>
        r \in {Of("region", m), Of("class", c), Of("node", m), Of("cdev", m),
               Pin("49"), Pin("30")}
  <2>1. \A j \in 1..(9 - 1) : j \in {1, 2, 3, 4, 5, 7} \/ j \in {6, 8}
    OBVIOUS
  <2>2. Gpio2.init[6].do # "take" /\ Gpio2.init[8].do # "take"
    BY Gpio2Script
  <2> QED
    BY <1>1, <1>2, <2>1, <2>2, Gpio2Script DEF Acquired
<1>6. \A r : ~Acquired(m, 1, r)
  BY DEF Acquired
<1>7. \A k \in 1..8 : \A r : Acquired(m, k, r) => Acquired(m, 9, r)
  <2>1. \A k \in 1..8 : \A j \in 1..(k - 1) : j \in 1..(9 - 1)
    OBVIOUS
  <2> QED
    BY <2>1 DEF Acquired
<1>8. \A k \in {5, 6, 7} : ~Acquired(m, k, Pin("30"))
  <2>1. \A k \in {5, 6, 7} : \A j \in 1..(k - 1) : j \in {1, 2, 3, 4, 5, 6}
    OBVIOUS
  <2>2. \A j \in {1, 2, 3, 4, 5} : Gpio2.init[j].res # Pin("30")
    BY Gpio2Script, DifferentKinds
  <2>3. Gpio2.init[6].do # "take"
    BY Gpio2Script
  <2> QED
    BY <1>2, <2>1, <2>2, <2>3 DEF Acquired
<1>9. \A r \in {Of("node", m), Of("class", c), Of("region", m)} :
        \A k \in {5, 6, 7, 8} : Listed(Gpio2.unwind[k], r)
  <2>1. /\ AddError(m, c) \in Seq(Parts(m, c)) /\ <<Pin("49")>> \in Seq(Parts(m, c))
        /\ <<Pin("30"), Pin("49")>> \in Seq(Parts(m, c))
    BY RegisteredLists DEF Parts
  <2>2. \A r \in {Of("node", m), Of("class", c), Of("region", m)} :
          Listed(AddError(m, c), r)
    BY RegisteredLists
  <2>3. \A r \in {Of("node", m), Of("class", c), Of("region", m)} :
          /\ Listed(<<Pin("49")>> \o AddError(m, c), r)
          /\ Listed(<<Pin("30"), Pin("49")>> \o AddError(m, c), r)
    BY <2>1, <2>2, ListedParts
  <2>4. /\ Gpio2.unwind[5] = AddError(m, c) /\ Gpio2.unwind[6] = <<Pin("49")>> \o AddError(m, c)
        /\ Gpio2.unwind[7] = AddError(m, c)
        /\ Gpio2.unwind[8] = <<Pin("30"), Pin("49")>> \o AddError(m, c)
    BY <1>1, Gpio2Script
  <2> QED
    BY <2>2, <2>3, <2>4, Zenon
<1>10. /\ Listed(Gpio2.unwind[8], Pin("30"))
       /\ \A r \in {Pin("30"), Pin("49"), Of("node", m), Of("class", c), Of("region", m),
                    Of("cdev", m)} : Listed(Gpio2.exit, r)
  <2>1. /\ AddError(m, c) \in Seq(Parts(m, c)) /\ Exit(m, c) \in Seq(Parts(m, c))
        /\ <<Pin("30"), Pin("49")>> \in Seq(Parts(m, c))
    BY RegisteredLists DEF Parts
  <2>2. /\ Listed(<<Pin("30"), Pin("49")>>, Pin("30"))
        /\ Listed(<<Pin("30"), Pin("49")>>, Pin("49"))
    BY ListedShort
  <2>3. \A r \in {Of("node", m), Of("class", c), Of("region", m), Of("cdev", m)} :
          Listed(Exit(m, c), r)
    BY RegisteredLists
  <2>4. /\ Gpio2.unwind[8] = <<Pin("30"), Pin("49")>> \o AddError(m, c)
        /\ Gpio2.exit = <<Pin("30"), Pin("49")>> \o Exit(m, c)
    BY <1>1, Gpio2Script
  <2>5. /\ Listed(<<Pin("30"), Pin("49")>> \o AddError(m, c), Pin("30"))
        /\ Listed(<<Pin("30"), Pin("49")>> \o Exit(m, c), Pin("30"))
        /\ Listed(<<Pin("30"), Pin("49")>> \o Exit(m, c), Pin("49"))
        /\ \A r \in {Of("node", m), Of("class", c), Of("region", m), Of("cdev", m)} :
             Listed(<<Pin("30"), Pin("49")>> \o Exit(m, c), r)
    BY <2>1, <2>2, <2>3, ListedParts
  <2> QED
    BY <2>4, <2>5, Zenon
<1>11. 8 + 1 = 9
  OBVIOUS
<1>12. ASSUME NEW r, Forgotten(m, r) PROVE r \in {Of("cdev", m), Pin("49")}
  <2>1. CASE \E k \in 1..8 : /\ Failable(m, k) /\ Acquired(m, k, r)
                             /\ ~Listed(Gpio2.unwind[k], r)
    BY <1>4, <1>5, <1>6, <1>7, <1>8, <1>9, <1>10, <2>1
  <2>2. ~(Acquired(m, 9, r) /\ ~Listed(Gpio2.exit, r))
    BY <1>5, <1>10
  <2> QED
    BY <1>2, <1>11, <1>12, <2>1, <2>2 DEF Forgotten
<1> QED
  BY <1>1, <1>2, <1>4, <1>5, <1>10, <1>11, <1>12

\* read_write.c, read_write_my.c and dev_nr.c unwind only when their first step
\* fails, and have nothing to unwind then.
Simple == {"read_write", "read_write_my", "dev_nr"}

\* The first step of each is the only one whose failure is noticed.
LEMMA SimpleFailsEarly ==
  ASSUME Driver = AllDrivers, NEW m \in Simple
  PROVE  /\ \A k \in 1..Len(Driver[m].init) : Failable(m, k) => k = 1
         /\ Driver[m].unwind[1] = <<>>
         /\ Driver[m].init[1].do = "take" /\ Noticed(Driver[m].init[1].res)
<1>1. CASE m = "read_write"
  <2>1. Driver[m] = ReadWrite /\ \A k \in 1..4 : k \in {1, 2, 3, 4}
    BY <1>1, DriverNames
  <2>2. Driver[m] = ReadWrite /\ Noticed(ReadWrite.init[1].res)
          /\ \A k \in {2, 3, 4} : ~Noticed(ReadWrite.init[k].res)
    BY <2>1, ReadWriteScript, DifferentKinds DEF Noticed
  <2> QED
    BY <2>1, <2>2, ReadWriteScript DEF Failable
<1>2. CASE m = "read_write_my"
  <2>1. Driver[m] = ReadWriteMy /\ \A k \in 1..6 : k \in {1, 2, 3, 4, 5, 6}
    BY <1>2, DriverNames
  <2>2. Driver[m] = ReadWriteMy /\ Noticed(ReadWriteMy.init[1].res)
          /\ \A k \in {2, 3, 4} : ~Noticed(ReadWriteMy.init[k].res)
    BY <2>1, ReadWriteMyScript, DifferentKinds DEF Noticed
  <2> QED
    BY <2>1, <2>2, ReadWriteMyScript DEF Failable
<1>3. CASE m = "dev_nr"
  <2>1. Driver[m] = DevNr /\ \A k \in 1..1 : k = 1
    BY <1>3, DriverNames
  <2> QED
    BY <2>1, DevNrScript, DifferentKinds DEF Failable, Noticed
<1> QED
  BY <1>1, <1>2, <1>3 DEF Simple

\* What they leave behind: the device number of read_write_my.c.
LEMMA SimpleForgets ==
  ASSUME Driver = AllDrivers, NEW m \in Simple, NEW r,
         Acquired(m, Len(Driver[m].init) + 1, r), ~Listed(Driver[m].exit, r)
  PROVE  m = "read_write_my" /\ r = Of("region", "read_write_my")
<1>1. CASE m = "read_write"
  <2>1. Driver[m] = ReadWrite /\ \A j \in 1..(4 + 1 - 1) : j \in {1, 2, 3, 4}
    BY <1>1, DriverNames
  <2>2. r \in {Of("region", "read_write"), Of("class", "MyModuleClass"),
               Of("node", "read_write"), Of("cdev", "read_write")}
    BY <2>1, ReadWriteScript DEF Acquired
  <2>3. ReadWrite.exit = Exit("read_write", "MyModuleClass")
    BY ReadWriteScript
  <2>4. Listed(Exit("read_write", "MyModuleClass"), r)
    BY <2>2, RegisteredLists
  <2> QED
    BY <2>1, <2>3, <2>4
<1>2. CASE m = "read_write_my"
  <2>1. Driver[m] = ReadWriteMy /\ \A j \in 1..(6 + 1 - 1) : j \in {1, 2, 3, 4} \/ j \in {5, 6}
    BY <1>2, DriverNames
  <2>2. r \in {Of("region", "read_write_my"), Of("class", "MyModuleClass"),
               Of("node", "read_write_my"), Of("cdev", "read_write_my")}
    BY <2>1, ReadWriteMyScript DEF Acquired
  <2>3. PICK a, b, c, d : /\ ReadWriteMy.exit = <<a, b, c, d>>
                          /\ a = Of("cdev", "read_write_my") /\ b = Of("node", "read_write_my")
                          /\ c = Of("class", "MyModuleClass")
    BY ReadWriteMyScript
  <2>4. 1 \in 1..4 /\ 2 \in 1..4 /\ 3 \in 1..4
    OBVIOUS
  <2>5. Listed(<<a, b, c, d>>, a) /\ Listed(<<a, b, c, d>>, b) /\ Listed(<<a, b, c, d>>, c)
    BY <2>4 DEF Listed
  <2>6. ~Listed(<<a, b, c, d>>, r)
    BY <2>1, <2>3
  <2>7. r = Of("region", "read_write_my")
    BY <2>2, <2>3, <2>5, <2>6
  <2> QED
    BY <1>2, <2>7
<1>3. CASE m = "dev_nr"
  <2>1. Driver[m] = DevNr /\ \A j \in 1..(1 + 1 - 1) : j = 1
    BY <1>3, DriverNames
  <2>2. r = Of("major", "160")
    BY <2>1, DevNrScript DEF Acquired
  <2>3. \A a : Listed(<<a>>, a)
    BY ListedShort
  <2>4. Listed(Driver[m].exit, r)
    BY <2>1, <2>2, <2>3, DevNrScript, Zenon
  <2> QED
    BY <2>4
<1> QED
  BY <1>1, <1>2, <1>3 DEF Simple

\* The five drivers of GPIOs and the three others.
LEMMA SimpleOrNot ==
  ASSUME Driver = AllDrivers
  PROVE  /\ Modules = {"gpio2", "lcd", "lcd_j", "lcd_my", "lcd_4bit"} \cup Simple
         /\ {"lcd", "lcd_j", "lcd_my", "lcd_4bit"} \cap Simple = {} /\ "gpio2" \notin Simple
  BY DriverNames DEF Simple

\* What the drivers' labels and their ModuleExits leave out.
LEMMA Leaks ==
  ASSUME Driver = AllDrivers, NEW m \in Modules, NEW r, Forgotten(m, r)
  PROVE  \/ r \in {Of("cdev", n) : n \in {"gpio2", "lcd", "lcd_j", "lcd_my", "lcd_4bit"}}
         \/ r \in {Pin("49"), Pin("26"), Of("region", "read_write_my")}
<1>1. CASE m = "gpio2"
  BY <1>1, Gpio2Forgets
<1>2. CASE m \in {"lcd", "lcd_j", "lcd_my", "lcd_4bit"}
  BY <1>2, DisplaysForget
<1>3. CASE m \in Simple
  <2>1. \A x : ~Acquired(m, 1, x)
    BY DEF Acquired
  <2>2. Acquired(m, Len(Driver[m].init) + 1, r) /\ ~Listed(Driver[m].exit, r)
    BY <1>3, <2>1, SimpleFailsEarly DEF Forgotten
  <2> QED
    BY <1>3, <2>2, SimpleForgets
<1> QED
  BY <1>1, <1>2, <1>3, SimpleOrNot

\* With the eight drivers: what the modules leave behind for ever are cdevs of
\* the GPIO drivers, GPIO_W of gpio2.c, the last line of lcd_my.c and the device
\* number of read_write_my.c, whichever of them are loaded and whatever fails.
THEOREM DriversLeak ==
  ASSUME Driver = AllDrivers
  PROVE  Spec => []LeaksAreKnown
<1>1. CharInv => LeaksAreKnown
  <2>1. DisplayPins[LastPin] = Pin("26")
    BY Pins
  <2> QED
    BY <2>1, Leaks DEF CharInv, OrphansForgotten, LeaksAreKnown
<1> QED
  BY <1>1, CharInvInit, CharInvStep, PTL DEF Spec

\* ModuleExit gives back what ModuleInit acquired, but for the device number of
\* read_write_my.c.
LEMMA ExitLists ==
  ASSUME Driver = AllDrivers, NEW m \in Modules, NEW r,
         Acquired(m, Len(Driver[m].init) + 1, r), ~Listed(Driver[m].exit, r)
  PROVE  r = Of("region", "read_write_my")
  BY ZenonT(60), Gpio2Forgets, DisplaysForget, SimpleForgets, SimpleOrNot

\* A module is up, then leaves, by the step that ends its ModuleExit only.
LEMMA OnlyGoneLeaves ==
  ASSUME CharInv, Next, NEW m \in Modules, state[m] = "exit", state'[m] = "absent"
  PROVE  Gone(m)
<1>1. state \in [Modules -> States]
  BY DEF CharInv, CharTypes
<1>2. ASSUME NEW n \in Modules, Load(n) \/ Unload(n) \/ ModuleStep(n) PROVE n = m
  BY <1>2, ModuleMoves DEF Moved
<1>3. ~(\E u \in Users : Close(u) \/ \E n \in Modules : Open(u, n))
  BY UserMoves
<1>4. Load(m) \/ Unload(m) \/ ModuleStep(m)
  BY <1>2, <1>3 DEF Next
<1>5. ~Load(m) /\ ~Unload(m) /\ ~Take(m) /\ ~TakeFails(m) /\ ~Output(m) /\ ~OutputFails(m)
        /\ ~Drop(m) /\ ~Live(m)
  BY DEF Load, Unload, Take, TakeFails, Output, OutputFails, Drop, Live, Initialising
<1>6. ~Release(m)
  BY DEF Release
<1>7. ~Crash(m)
  BY <1>1 DEF Crash
<1> QED
  BY <1>4, <1>5, <1>6, <1>7 DEF ModuleStep

\* With the eight drivers: ModuleExit gives back everything the module holds,
\* but for the device number of read_write_my.c.
THEOREM ExitsReturnAll ==
  ASSUME Driver = AllDrivers
  PROVE  Spec => ExitReturnsAll
<1>1. ASSUME CharInv, [Next]_vars
      PROVE  [\A m \in Modules : state[m] = "exit" /\ state'[m] = "absent" =>
                held[m] \subseteq {Of("region", "read_write_my")}]_vars
  <2>1. SUFFICES ASSUME Next, NEW m \in Modules, state[m] = "exit", state'[m] = "absent"
                 PROVE  held[m] \subseteq {Of("region", "read_write_my")}
    BY <1>1
  <2>2. Gone(m)
    BY <1>1, <2>1, OnlyGoneLeaves
  <2>3. rest[m] = <<>>
    BY <2>2 DEF Gone
  <2>4. ASSUME NEW r \in held[m] PROVE r = Of("region", "read_write_my")
    BY <1>1, <2>1, <2>3, <2>4, LeftIsForgotten, ExitLists
  <2> QED
    BY <2>4
<1> QED
  BY <1>1, CharInvInit, CharInvStep, PTL DEF Spec, ExitReturnsAll
-----------------------------------------------------------------------------
(* Open files: a driver that fails early only is never left by a failure   *)
(* while its file is open.                                                 *)

FileInv ==
    \A u \in Users : \A m \in Simple : file[u] = m =>
      /\ state[m] \in {"init", "live", "crashed"}
      /\ state[m] = "init" => next[m] # 1

\* What a step of module n does to the files.
LEMMA FilesFollow ==
  ASSUME CharInv, Driver = AllDrivers, NEW n \in Modules,
         Load(n) \/ Unload(n) \/ ModuleStep(n), NEW u \in Users
  PROVE  \/ file'[u] = file[u]
         \/ Gone(n) /\ file[u] = n /\ file'[u] = FreedCode
<1>1. file \in [Users -> Modules \cup {NoFile, FreedCode}]
  BY DEF CharInv, CharTypes
<1>2. CASE Gone(n)
  BY <1>1, <1>2 DEF Gone
<1>3. CASE ~Gone(n)
  BY <1>3 DEF Load, Unload, ModuleStep, Take, TakeFails, Output, OutputFails, Drop, Live,
              Release, Crash
<1> QED
  BY <1>2, <1>3

\* The steps of one of the simple drivers.
LEMMA SimpleMoves ==
  ASSUME CharInv, Driver = AllDrivers, NEW m \in Simple,
         Load(m) \/ Unload(m) \/ ModuleStep(m), NEW u \in Users, file[u] = m,
         state[m] \in {"init", "live", "crashed"}, state[m] = "init" => next[m] # 1
  PROVE  state'[m] \in {"init", "live", "crashed"} /\ (state'[m] = "init" => next'[m] # 1)
<1>1. m \in Modules /\ CharTypes /\ Place(m)
  BY SimpleOrNot DEF CharInv
<1>2. next[m] \in Nat \ {0} /\ Len(Driver[m].init) \in Nat
  BY <1>1, ScriptTypes DEF Place
<1>3. ~Load(m) /\ ~Unload(m) /\ ~Release(m) /\ ~Gone(m)
  BY DEF Load, Unload, Release, Gone, Releasing
<1>4. CASE Take(m) \/ Output(m) \/ Drop(m)
  <2>1. state' = state /\ next' = [next EXCEPT ![m] = @ + 1]
    BY <1>4 DEF Take, Output, Drop
  <2>2. state'[m] = state[m] /\ next'[m] = next[m] + 1
    BY <1>1, <2>1 DEF CharTypes
  <2> QED
    BY <1>2, <2>2
<1>5. CASE TakeFails(m) \/ OutputFails(m)
  <2>1. state[m] = "init" /\ next[m] \in 1..Len(Driver[m].init) /\ next[m] # 1
    BY <1>2, <1>5 DEF TakeFails, OutputFails, Initialising
  <2>2. ~Failable(m, next[m])
    BY <2>1, SimpleFailsEarly
  <2>3. ~OutputFails(m)
    BY <2>1, <2>2 DEF OutputFails, Initialising, Failable, Step
  <2>4. TakeFails(m) /\ ~Noticed(Step(m).res)
    BY <1>5, <2>1, <2>2, <2>3 DEF TakeFails, Initialising, Failable, Step
  <2>5. state' = state /\ next' = [next EXCEPT ![m] = @ + 1]
    BY <2>4 DEF TakeFails
  <2>6. state'[m] = state[m] /\ next'[m] = next[m] + 1
    BY <1>1, <2>5 DEF CharTypes
  <2> QED
    BY <1>2, <2>6
<1>6. CASE Live(m)
  BY <1>1, <1>6 DEF Live, CharTypes
<1>7. CASE Crash(m)
  BY <1>1, <1>7 DEF Crash, CharTypes
<1> QED
  BY <1>3, <1>4, <1>5, <1>6, <1>7 DEF ModuleStep

\* No file is open at first.
LEMMA FileInvInit ==
  ASSUME Driver = AllDrivers
  PROVE  Init => FileInv
<1>1. \A m \in Simple : m # NoFile
  BY DEF Simple, NoFile
<1> QED
  BY <1>1 DEF Init, FileInv

\* The invariant of the files is inductive together with CharInv.
LEMMA FileInvStep ==
  ASSUME Driver = AllDrivers
  PROVE  CharInv /\ FileInv /\ [Next]_vars => FileInv'
<1> SUFFICES ASSUME CharInv, FileInv, [Next]_vars, NEW u \in Users, NEW m \in Simple,
                    file'[u] = m
             PROVE  /\ state'[m] \in {"init", "live", "crashed"}
                    /\ state'[m] = "init" => next'[m] # 1
  BY DEF FileInv
<1>1. m \in Modules /\ m # FreedCode /\ m # NoFile
  BY SimpleOrNot DEF Simple, FreedCode, NoFile
<1>2. CASE UNCHANGED vars
  BY <1>2 DEF vars, FileInv
<1>3. ASSUME NEW n \in Modules, Load(n) \/ Unload(n) \/ ModuleStep(n)
      PROVE  /\ state'[m] \in {"init", "live", "crashed"}
             /\ state'[m] = "init" => next'[m] # 1
  <2>1. file[u] = m
    BY <1>1, <1>3, FilesFollow
  <2>2. state[m] \in {"init", "live", "crashed"} /\ (state[m] = "init" => next[m] # 1)
    BY <2>1 DEF FileInv
  <2>3. CASE n = m
    BY <1>3, <2>1, <2>2, <2>3, SimpleMoves
  <2>4. CASE n # m
    <3>1. state'[m] = state[m] /\ next'[m] = next[m]
      BY <1>1, <1>3, <2>4, ModuleMoves DEF Moved
    <3> QED
      BY <2>2, <3>1
  <2> QED
    BY <2>3, <2>4
<1>4. ASSUME NEW v \in Users, Close(v) \/ \E n \in Modules : Open(v, n)
      PROVE  /\ state'[m] \in {"init", "live", "crashed"}
             /\ state'[m] = "init" => next'[m] # 1
  <2>1. file \in [Users -> Modules \cup {NoFile, FreedCode}] /\ Place(m) /\ Books(m)
    BY <1>1 DEF CharInv, CharTypes
  <2>2. UNCHANGED <<state, next>>
    BY <1>4 DEF Close, Open
  <2>3. CASE file[u] = m
    BY <2>2, <2>3 DEF FileInv
  <2>4. CASE file[u] # m
    <3>1. PICK n \in Modules : Open(v, n) /\ v = u /\ n = m
      <4>1. ~Close(v)
        BY <1>1, <2>1, <2>4 DEF Close
      <4>2. PICK n \in Modules : Open(v, n)
        BY <1>4, <4>1
      <4> QED
        BY <1>1, <2>1, <2>4, <4>2 DEF Open
    <3>2. state[m] \in {"init", "unwind", "live"} /\ held[m] # {}
      BY <3>1 DEF Open
    <3>3. \A r : ~Acquired(m, 1, r)
      BY DEF Acquired
    <3>4. next[m] # 1
      BY <2>1, <3>2, <3>3 DEF Books
    <3>5. state[m] # "unwind"
      <4>1. next[m] \in 1..Len(Driver[m].init) /\ Failable(m, next[m]) => next[m] = 1
        BY SimpleFailsEarly
      <4> QED
        BY <2>1, <3>4, <4>1 DEF Place, Failable
    <3> QED
      BY <2>2, <3>2, <3>4, <3>5
  <2> QED
    BY <2>3, <2>4
<1> QED
  BY <1>2, <1>3, <1>4 DEF Next

\* With the eight drivers: a file is left open on freed code only by a driver
\* that can still fail after it has published its cdev.
THEOREM StrandedByLateFailures ==
  ASSUME Driver = AllDrivers
  PROVE  Spec => StrandedOnlyByLateFailure
<1>1. ASSUME CharInv, FileInv, [Next]_vars
      PROVE  [\A u \in Users : file[u] \in Modules /\ file'[u] = FreedCode =>
                file[u] \notin {"read_write", "read_write_my", "dev_nr"}]_vars
  <2>1. SUFFICES ASSUME Next, NEW u \in Users, file[u] \in Simple, file'[u] = FreedCode
                 PROVE  FALSE
    BY <1>1 DEF Simple
  <2>2. file[u] # FreedCode /\ NoFile # FreedCode /\ FreedCode \notin Modules
    BY <2>1, DriverNames DEF Simple, FreedCode, NoFile
  <2>3. \A n \in Modules : ~(Load(n) \/ Unload(n) \/ ModuleStep(n))
    <3>1. SUFFICES ASSUME NEW n \in Modules, Load(n) \/ Unload(n) \/ ModuleStep(n)
                   PROVE  FALSE
      OBVIOUS
    <3>2. Gone(n) /\ file[u] = n
      BY <1>1, <2>1, <2>2, <3>1, FilesFollow
    <3> QED
      BY <1>1, <2>1, <3>2 DEF Gone, FileInv
  <2>4. PICK v \in Users : Close(v) \/ \E n \in Modules : Open(v, n)
    BY <2>1, <2>3 DEF Next
  <2>5. file \in [Users -> Modules \cup {NoFile, FreedCode}]
    BY <1>1 DEF CharInv, CharTypes
  <2> QED
    BY <2>1, <2>2, <2>4, <2>5 DEF Close, Open
<1>2. Init => CharInv /\ FileInv
  BY CharInvInit, FileInvInit
<1>3. CharInv /\ FileInv /\ [Next]_vars => (CharInv /\ FileInv)'
  BY CharInvStep, FileInvStep
<1> QED
  BY <1>1, <1>2, <1>3, PTL DEF Spec, StrandedOnlyByLateFailure
-----------------------------------------------------------------------------
(* Pins and major numbers: who may take them away.                         *)

\* The list s of a module that has come to step k frees pins, or major numbers,
\* that it has acquired, each once.
Own(m, k, s, kind) ==
    \A i \in 1..Len(s) :
      /\ kind = "pin" => s[i].kind # "beyond"
      /\ s[i].kind = kind =>
           Acquired(m, k, s[i]) /\ \A j \in 1..Len(s) : s[j] = s[i] => j = i

Careful(m, kind) ==
    /\ \A k \in 1..Len(Driver[m].init) :
         /\ Driver[m].init[k].do = "drop" => Driver[m].init[k].res.kind # kind
         /\ Failable(m, k) => Own(m, k, Driver[m].unwind[k], kind)
    /\ Own(m, Len(Driver[m].init) + 1, Driver[m].exit, kind)

\* What is still to be released is held.
Coming(m, kind) ==
    \A i \in 1..Len(rest[m]) :
      /\ kind = "pin" => rest[m][i].kind # "beyond"
      /\ rest[m][i].kind = kind =>
           rest[m][i] \in held[m] /\ \A j \in 1..Len(rest[m]) : rest[m][j] = rest[m][i] => j = i

Keeps(m, kind) ==
    /\ state[m] \in {"init", "live"} =>
         \A r : r.kind = kind /\ Acquired(m, next[m], r) => r \in held[m]
    /\ state[m] \in {"unwind", "exit"} => Coming(m, kind)

Exclusive(kind) ==
    \A m, n \in Modules : m # n => \A r \in held[m] : r.kind = kind => r \notin held[n]

AllCareful(kind) == \A m \in present : Careful(m, kind)

KeptInv(kind) == AllCareful(kind) => \A m \in Modules : Keeps(m, kind)

\* A step of a careful module leaves the others theirs.
LEMMA OthersKeep ==
  ASSUME CharInv, NEW kind \in {"pin", "major"}, Exclusive(kind), AllCareful(kind),
         KeptInv(kind), NEW n \in Modules, Load(n) \/ Unload(n) \/ ModuleStep(n),
         NEW m \in Modules \ {n}, NEW x \in held[m], x.kind = kind
  PROVE  x \in held'[m]
<1>1. CharTypes /\ Place(n) /\ Keeps(n, kind)
  BY DEF CharInv, KeptInv
<1>2. CASE Release(n)
  <2>1. state[n] \in {"unwind", "exit"} /\ rest[n] \in Releases /\ rest[n] # <<>>
    BY <1>1, <1>2 DEF CharTypes, Release, Releasing
  <2>2. PICK r \in Resource \cup {Beyond} : r = Head(rest[n]) /\ Released(n, r)
    BY <1>2, <2>1, TailLists DEF Release
  <2>3. 1 \in 1..Len(rest[n]) /\ rest[n][1] = r
    BY <2>1, <2>2 DEF Releases
  <2>4. /\ kind = "pin" => r.kind # "beyond"
        /\ r.kind = kind => r \in held[n]
    BY <1>1, <2>1, <2>3 DEF Keeps, Coming
  <2>5. SUFFICES ASSUME x \notin held'[m] PROVE FALSE
    OBVIOUS
  <2>6. x = r \/ (r.kind = "beyond" /\ x.kind = "pin")
    BY <1>1, <2>2, <2>5, ReleasedEffect
  <2>7. x = r /\ r.kind = kind
    BY <2>4, <2>6
  <2> QED
    BY <2>4, <2>7 DEF Exclusive
<1>3. CASE Drop(n)
  <2>1. next[n] \in 1..Len(Driver[n].init) /\ state[n] = "init"
    BY <1>1, <1>3, ScriptTypes DEF Drop, Initialising, Place
  <2>2. PICK r \in Resource : r = Driver[n].init[next[n]].res /\ Released(n, r)
    BY <1>3, <2>1, ScriptTypes DEF Drop, Step
  <2>3. Careful(n, kind)
    BY <1>1, <2>1 DEF AllCareful, Place
  <2>4. r.kind # kind /\ r.kind # "beyond"
    BY <1>3, <2>1, <2>2, <2>3 DEF Careful, Drop, Initialising, Step, Resource, Kinds
  <2>5. SUFFICES ASSUME x \notin held'[m] PROVE FALSE
    OBVIOUS
  <2>6. x = r \/ (r.kind = "beyond" /\ x.kind = "pin")
    BY <1>1, <2>2, <2>5, ReleasedEffect
  <2> QED
    BY <2>4, <2>6
<1>4. CASE Take(n) \/ Gone(n)
  <2>1. \E h : held' = [held EXCEPT ![n] = h]
    BY <1>4 DEF Take, Gone
  <2> QED
    BY <1>1, <2>1 DEF CharTypes
<1>5. CASE Load(n) \/ Unload(n) \/ TakeFails(n) \/ Output(n) \/ OutputFails(n) \/ Live(n) \/ Crash(n)
  BY <1>5 DEF Load, Unload, TakeFails, Output, OutputFails, Live, Crash
<1> QED
  BY <1>2, <1>3, <1>4, <1>5 DEF ModuleStep

\* A careful module still holds what it has acquired and will release.
LEMMA OwnKeeps ==
  ASSUME CharInv, NEW kind \in {"pin", "major"}, NEW n \in Modules, Keeps(n, kind),
         Load(n) \/ Unload(n) \/ ModuleStep(n), n \in present => Careful(n, kind)
  PROVE  Keeps(n, kind)'
<1>1. CharTypes /\ Place(n) /\ Books(n)
  BY DEF CharInv
<1>2. /\ next[n] \in Nat \ {0} /\ Len(Driver[n].init) \in Nat
      /\ next[n] \in 1..(Len(Driver[n].init) + 1)
  BY <1>1, ScriptTypes DEF Place
<1>3. CASE Load(n)
  <2>1. /\ state' = [state EXCEPT ![n] = "init"] /\ next'[n] = 1
    BY <1>1, <1>3 DEF Load, Place
  <2>2. state'[n] = "init" /\ \A r : ~Acquired(n, 1, r)
    BY <1>1, <2>1 DEF CharTypes, Acquired
  <2> QED
    BY <2>1, <2>2 DEF Keeps
<1>4. CASE Unload(n)
  <2>1. /\ state' = [state EXCEPT ![n] = "exit"] /\ state[n] = "live"
        /\ rest' = [rest EXCEPT ![n] = Driver[n].exit] /\ held' = held
    BY <1>4 DEF Unload
  <2>2. state'[n] = "exit" /\ rest'[n] = Driver[n].exit /\ held'[n] = held[n]
    BY <1>1, <2>1 DEF CharTypes
  <2>3. n \in present /\ next[n] = Len(Driver[n].init) + 1
    BY <1>1, <2>1 DEF Place
  <2>4. Own(n, next[n], Driver[n].exit, kind)
    BY <2>3 DEF Careful
  <2>5. \A r : r.kind = kind /\ Acquired(n, next[n], r) => r \in held[n]
    BY <2>1 DEF Keeps
  <2>6. Coming(n, kind)'
    BY <2>2, <2>4, <2>5 DEF Own, Coming
  <2> QED
    BY <2>2, <2>6 DEF Keeps
<1>5. ASSUME state[n] = "init", next[n] \in 1..Len(Driver[n].init), Unwind(n),
             Failable(n, next[n]), held' = held
      PROVE  Keeps(n, kind)'
  <2>1. state'[n] = "unwind" /\ rest'[n] = Driver[n].unwind[next[n]] /\ held'[n] = held[n]
    BY <1>1, <1>5 DEF Unwind, CharTypes
  <2>2. n \in present
    BY <1>1, <1>5 DEF Place
  <2>3. Own(n, next[n], Driver[n].unwind[next[n]], kind)
    BY <1>5, <2>2 DEF Careful
  <2>4. \A r : r.kind = kind /\ Acquired(n, next[n], r) => r \in held[n]
    BY <1>5 DEF Keeps
  <2>5. Coming(n, kind)'
    BY <2>1, <2>3, <2>4 DEF Own, Coming
  <2> QED
    BY <2>1, <2>5 DEF Keeps
<1>6. ASSUME state[n] = "init", state' = state, next' = [next EXCEPT ![n] = @ + 1],
             \A r \in held[n] : r.kind = kind => r \in held'[n],
             \A r : r.kind = kind /\ Acquired(n, next[n] + 1, r) =>
                      Acquired(n, next[n], r) \/ r \in held'[n]
      PROVE  Keeps(n, kind)'
  <2>1. state'[n] = "init" /\ next'[n] = next[n] + 1
    BY <1>1, <1>6 DEF CharTypes
  <2>2. \A r : r.kind = kind /\ Acquired(n, next[n], r) => r \in held[n]
    BY <1>6 DEF Keeps
  <2> QED
    BY <1>6, <2>1, <2>2 DEF Keeps
<1>7. CASE Take(n)
  <2>1. /\ state[n] = "init" /\ state' = state /\ next' = [next EXCEPT ![n] = @ + 1]
        /\ held' = [held EXCEPT ![n] = @ \cup {Step(n).res}]
    BY <1>7 DEF Take, Initialising
  <2>2. held'[n] = held[n] \cup {Driver[n].init[next[n]].res}
    BY <1>1, <2>1 DEF CharTypes, Step
  <2> QED
    BY <1>2, <1>6, <2>1, <2>2, AcquiredGrows
<1>8. CASE Output(n)
  <2>1. /\ state[n] = "init" /\ state' = state /\ next' = [next EXCEPT ![n] = @ + 1]
        /\ held' = held /\ Driver[n].init[next[n]].do = "output"
    BY <1>8 DEF Output, Initialising, Step
  <2> QED
    BY <1>2, <1>6, <2>1, AcquiredGrows
<1>9. CASE Drop(n)
  <2>1. /\ state[n] = "init" /\ state' = state /\ next' = [next EXCEPT ![n] = @ + 1]
        /\ Driver[n].init[next[n]].do = "drop" /\ Released(n, Step(n).res)
        /\ next[n] \in 1..Len(Driver[n].init)
    BY <1>2, <1>9 DEF Drop, Initialising, Step
  <2>2. PICK r \in Resource : r = Driver[n].init[next[n]].res /\ Released(n, r)
    BY <2>1, ScriptTypes DEF Step
  <2>3. n \in present
    BY <1>1, <2>1 DEF Place
  <2>4. r.kind # kind /\ r.kind # "beyond"
    BY <2>1, <2>2, <2>3 DEF Careful, Resource, Kinds
  <2>5. \A x \in held[n] : x.kind = kind => x \in held'[n]
    BY <1>1, <2>2, <2>4, ReleasedEffect
  <2> QED
    BY <1>2, <1>6, <2>1, <2>5, AcquiredGrows
<1>10. CASE OutputFails(n)
  <2>1. /\ state[n] = "init" /\ next[n] \in 1..Len(Driver[n].init) /\ Unwind(n)
        /\ held' = held /\ Driver[n].init[next[n]].do = "output"
    BY <1>2, <1>10 DEF OutputFails, Initialising, Step
  <2> QED
    BY <1>5, <2>1 DEF Failable
<1>11. CASE TakeFails(n)
  <2>1. /\ state[n] = "init" /\ next[n] \in 1..Len(Driver[n].init) /\ held' = held
        /\ Driver[n].init[next[n]].do = "take"
    BY <1>2, <1>11 DEF TakeFails, Initialising, Step
  <2>2. CASE Noticed(Step(n).res)
    <3>1. Unwind(n) /\ Failable(n, next[n])
      BY <1>11, <2>1, <2>2 DEF TakeFails, Failable, Step
    <3> QED
      BY <1>5, <2>1, <3>1
  <2>3. CASE ~Noticed(Step(n).res)
    <3>1. state' = state /\ next' = [next EXCEPT ![n] = @ + 1]
      BY <1>11, <2>3 DEF TakeFails
    <3>2. Driver[n].init[next[n]].res.kind # kind
      BY <2>3 DEF Noticed, Step
    <3> QED
      BY <1>2, <1>6, <2>1, <3>1, <3>2, AcquiredGrows
  <2> QED
    BY <2>2, <2>3
<1>12. CASE Live(n)
  <2>1. state[n] = "init" /\ state' = [state EXCEPT ![n] = "live"]
          /\ next' = next /\ held' = held
    BY <1>12 DEF Live
  <2>2. state'[n] = "live"
    BY <1>1, <2>1 DEF CharTypes
  <2> QED
    BY <2>1, <2>2 DEF Keeps
<1>13. CASE Crash(n) \/ Gone(n)
  <2>1. state' = [state EXCEPT ![n] = "crashed"] \/ state' = [state EXCEPT ![n] = "absent"]
    BY <1>13 DEF Crash, Gone
  <2>2. state'[n] \in {"crashed", "absent"}
    BY <1>1, <2>1 DEF CharTypes
  <2> QED
    BY <2>2 DEF Keeps
<1>14. CASE Release(n)
  <2>1. /\ state[n] \in {"unwind", "exit"} /\ rest[n] # <<>> /\ state' = state
        /\ rest' = [rest EXCEPT ![n] = Tail(@)] /\ rest[n] \in Releases
    BY <1>1, <1>14 DEF CharTypes, Release, Releasing
  <2>2. PICK s \in Releases : s = rest[n] /\ s # <<>>
    BY <2>1
  <2>3. PICK r \in Resource \cup {Beyond} : r = Head(s) /\ Released(n, r)
    BY <1>14, <2>2, TailLists DEF Release
  <2>4. rest'[n] = Tail(s) /\ state'[n] = state[n]
    BY <1>1, <2>1, <2>2 DEF CharTypes
  <2>5. /\ Len(s) \in Nat \ {0} /\ Len(Tail(s)) = Len(s) - 1 /\ s[1] = r /\ 1 \in 1..Len(s)
        /\ \A i \in 1..(Len(s) - 1) : Tail(s)[i] = s[i + 1] /\ i + 1 \in 1..Len(s)
    BY <2>2, <2>3 DEF Releases
  <2>6. /\ kind = "pin" => r.kind # "beyond"
        /\ \A i \in 1..Len(s) :
             /\ kind = "pin" => s[i].kind # "beyond"
             /\ s[i].kind = kind =>
                  s[i] \in held[n] /\ \A j \in 1..Len(s) : s[j] = s[i] => j = i
    BY <2>1, <2>2, <2>5 DEF Keeps, Coming
  <2>7. \A x \in held[n] : x.kind = kind /\ x # r => x \in held'[n]
    BY <1>1, <2>3, <2>6, ReleasedEffect
  <2>8. ASSUME NEW i \in 1..(Len(s) - 1)
        PROVE  /\ kind = "pin" => Tail(s)[i].kind # "beyond"
               /\ Tail(s)[i].kind = kind =>
                    /\ Tail(s)[i] \in held'[n]
                    /\ \A j \in 1..(Len(s) - 1) : Tail(s)[j] = Tail(s)[i] => j = i
    <3>1. Tail(s)[i] = s[i + 1] /\ i + 1 \in 1..Len(s) /\ i + 1 # 1 /\ i \in Nat
      BY <2>5
    <3>2. kind = "pin" => Tail(s)[i].kind # "beyond"
      BY <2>6, <3>1
    <3>3. SUFFICES ASSUME Tail(s)[i].kind = kind
                   PROVE  /\ Tail(s)[i] \in held'[n]
                          /\ \A j \in 1..(Len(s) - 1) : Tail(s)[j] = Tail(s)[i] => j = i
      BY <3>2
    <3>4. s[i + 1] \in held[n] /\ \A j \in 1..Len(s) : s[j] = s[i + 1] => j = i + 1
      BY <2>6, <3>1, <3>3
    <3>5. s[i + 1] # r
      BY <2>5, <3>1, <3>4
    <3>6. Tail(s)[i] \in held'[n]
      BY <2>7, <3>1, <3>3, <3>4, <3>5
    <3>7. ASSUME NEW j \in 1..(Len(s) - 1), Tail(s)[j] = Tail(s)[i] PROVE j = i
      <4>1. s[j + 1] = s[i + 1] /\ j + 1 \in 1..Len(s)
        BY <2>5, <3>1, <3>7
      <4>2. j + 1 = i + 1
        BY <3>4, <4>1
      <4> QED
        BY <4>2
    <3> QED
      BY <3>6, <3>7
  <2>9. Coming(n, kind)'
    BY <2>4, <2>5, <2>8 DEF Coming
  <2> QED
    BY <2>1, <2>4, <2>9 DEF Keeps
<1> QED
  BY <1>3, <1>4, <1>7, <1>8, <1>9, <1>10, <1>11, <1>12, <1>13, <1>14 DEF ModuleStep

\* Nobody takes what another holds.
LEMMA ExclusiveStep ==
  ASSUME CharInv, NEW kind \in {"pin", "major"}, Exclusive(kind), Next
  PROVE  Exclusive(kind)'
<1>1. CharTypes
  BY DEF CharInv
<1>2. CASE \E u \in Users : Close(u) \/ \E m \in Modules : Open(u, m)
  BY <1>2 DEF Close, Open, Exclusive
<1>3. ASSUME NEW n \in Modules, Load(n) \/ Unload(n) \/ ModuleStep(n)
      PROVE  Exclusive(kind)'
  <2>1. \A m \in Modules \ {n} : held'[m] \subseteq held[m]
    BY <1>3, ModuleMoves DEF Moved
  <2>2. CASE Take(n)
    <3>1. PICK r : r = Step(n).res
      OBVIOUS
    <3>2. held'[n] = held[n] \cup {r} /\ ~Taken(r)
      BY <1>1, <2>2, <3>1 DEF Take, CharTypes
    <3>3. r.kind = kind => \A m \in Modules : r \notin held[m]
      BY <3>2 DEF Taken
    <3> QED
      BY <2>1, <3>2, <3>3 DEF Exclusive
  <2>3. CASE ~Take(n)
    <3>1. held'[n] \subseteq held[n]
      <4>1. CASE Release(n)
        <5>1. rest[n] \in Releases /\ rest[n] # <<>> /\ Released(n, Head(rest[n]))
          BY <1>1, <4>1 DEF CharTypes, Release, Releasing
        <5> QED
          BY <1>1, <5>1, TailLists, ReleasedEffect
      <4>2. CASE Drop(n)
        <5>1. Place(n)
          BY DEF CharInv
        <5>2. next[n] \in 1..Len(Driver[n].init) /\ Released(n, Step(n).res)
          BY <4>2, <5>1, ScriptTypes DEF Drop, Initialising, Place
        <5>3. Step(n).res \in Resource \cup {Beyond}
          BY <5>2, ScriptTypes DEF Step
        <5> QED
          BY <1>1, <5>2, <5>3, ReleasedEffect
      <4>3. CASE Gone(n)
        BY <1>1, <4>3 DEF Gone, CharTypes
      <4>4. CASE Load(n) \/ Unload(n) \/ TakeFails(n) \/ Output(n) \/ OutputFails(n)
                   \/ Live(n) \/ Crash(n)
        BY <4>4 DEF Load, Unload, TakeFails, Output, OutputFails, Live, Crash
      <4> QED
        BY <1>3, <2>3, <4>1, <4>2, <4>3, <4>4 DEF ModuleStep
    <3> QED
      BY <2>1, <3>1 DEF Exclusive
  <2> QED
    BY <2>2, <2>3
<1> QED
  BY <1>2, <1>3 DEF Next

\* What careful modules hold stays theirs.
LEMMA KeptStep ==
  ASSUME CharInv, NEW kind \in {"pin", "major"}, Exclusive(kind), KeptInv(kind), Next
  PROVE  KeptInv(kind)'
<1>1. present' = present
  BY ModuleMoves, UserMoves DEF Next, Moved
<1>2. SUFFICES ASSUME AllCareful(kind), NEW m \in Modules
               PROVE  Keeps(m, kind)'
  BY <1>1 DEF KeptInv, AllCareful, Careful, Own, Acquired, Failable
<1>3. Keeps(m, kind)
  BY <1>2 DEF KeptInv
<1>4. CASE \E u \in Users : Close(u) \/ \E n \in Modules : Open(u, n)
  BY <1>3, <1>4 DEF Close, Open, Keeps, Coming
<1>5. ASSUME NEW n \in Modules, Load(n) \/ Unload(n) \/ ModuleStep(n)
      PROVE  Keeps(m, kind)'
  <2>1. CASE n = m
    BY <1>2, <1>3, <1>5, <2>1, OwnKeeps DEF AllCareful
  <2>2. CASE n # m
    <3>1. state'[m] = state[m] /\ next'[m] = next[m] /\ rest'[m] = rest[m]
      BY <1>5, <2>2, ModuleMoves DEF Moved
    <3>2. \A x \in held[m] : x.kind = kind => x \in held'[m]
      BY <1>2, <1>5, <2>2, OthersKeep
    <3> QED
      BY <1>3, <3>1, <3>2 DEF Keeps, Coming
  <2> QED
    BY <2>1, <2>2
<1> QED
  BY <1>4, <1>5 DEF Next

\* A list that begins with pins of the module, each once, and goes on with none.
OwnedPins(m, k, p) ==
    \A i \in 1..Len(p) :
      /\ p[i].kind = "pin" /\ Acquired(m, k, p[i])
      /\ \A j \in 1..Len(p) : p[j] = p[i] => j = i

NoPins(t) == \A r : Listed(t, r) => r.kind \notin {"pin", "beyond"}

\* Such a list frees what is its own.
LEMMA OwnPins ==
  ASSUME NEW m, NEW k, NEW S, NEW p \in Seq(S), NEW t \in Seq(S),
         OwnedPins(m, k, p), NoPins(t)
  PROVE  Own(m, k, p \o t, "pin")
<1>1. /\ Len(p) \in Nat /\ Len(t) \in Nat /\ Len(p \o t) = Len(p) + Len(t)
      /\ \A i \in 1..Len(p) : (p \o t)[i] = p[i]
      /\ \A i \in 1..Len(t) : (p \o t)[Len(p) + i] = t[i]
  OBVIOUS
<1>2. \A i \in 1..(Len(p) + Len(t)) :
         i \in 1..Len(p) \/ (i - Len(p) \in 1..Len(t) /\ Len(p) + (i - Len(p)) = i)
  BY <1>1
<1>3. \A i \in 1..Len(t) : t[i].kind \notin {"pin", "beyond"}
  BY DEF Listed, NoPins
<1>4. \A i \in 1..(Len(p) + Len(t)) :
         \/ i \in 1..Len(p) /\ (p \o t)[i] = p[i]
         \/ (p \o t)[i].kind \notin {"pin", "beyond"}
  BY <1>1, <1>2, <1>3
<1>5. ASSUME NEW i \in 1..(Len(p) + Len(t))
      PROVE  /\ (p \o t)[i].kind # "beyond"
             /\ (p \o t)[i].kind = "pin" =>
                  /\ Acquired(m, k, (p \o t)[i])
                  /\ \A j \in 1..(Len(p) + Len(t)) : (p \o t)[j] = (p \o t)[i] => j = i
  <2>1. CASE (p \o t)[i].kind \notin {"pin", "beyond"}
    BY <2>1
  <2>2. CASE i \in 1..Len(p) /\ (p \o t)[i] = p[i]
    <3>1. (p \o t)[i].kind = "pin" /\ Acquired(m, k, (p \o t)[i])
      BY <2>2 DEF OwnedPins
    <3>2. ASSUME NEW j \in 1..(Len(p) + Len(t)), (p \o t)[j] = (p \o t)[i] PROVE j = i
      <4>1. j \in 1..Len(p) /\ (p \o t)[j] = p[j]
        BY <1>4, <3>1, <3>2
      <4> QED
        BY <2>2, <3>2, <4>1 DEF OwnedPins
    <3> QED
      BY <3>1, <3>2
  <2> QED
    BY <1>4, <2>1, <2>2
<1> QED
  BY <1>1, <1>5 DEF Own

\* Lists without pins, or without major numbers.
LEMMA OwnNone ==
  ASSUME NEW m, NEW k, NEW s
  PROVE  /\ (\A r : Listed(s, r) => r.kind \notin {"pin", "beyond"}) => Own(m, k, s, "pin")
         /\ (\A r : Listed(s, r) => r.kind # "major") => Own(m, k, s, "major")
  BY DEF Own, Listed

\* The device number, the class, the device file and the cdev are neither.
LEMMA RegisteredKinds ==
  ASSUME NEW m, NEW c
  PROVE  /\ \A r : Listed(AddError(m, c), r) => r.kind \notin {"pin", "beyond", "major"}
         /\ \A r : Listed(Exit(m, c), r) => r.kind \notin {"pin", "beyond", "major"}
         /\ \A s \in Seq(Parts(m, c)) : \A r : Listed(s, r) => r.kind # "major"
<1>1. /\ \A r : Listed(AddError(m, c), r) => r.kind \notin {"pin", "beyond", "major"}
      /\ \A r : Listed(Exit(m, c), r) => r.kind \notin {"pin", "beyond", "major"}
  BY RegisteredLists, DifferentKinds
<1>2. \A r \in Parts(m, c) : r.kind # "major"
  BY DifferentKinds DEF Parts
<1>3. ASSUME NEW s \in Seq(Parts(m, c)), NEW r, Listed(s, r) PROVE r.kind # "major"
  <2>1. r \in Parts(m, c)
    BY <1>3, ElementOfSeq DEF Listed
  <2> QED
    BY <1>2, <2>1
<1> QED
  BY <1>1, <1>3

\* No display ever asks for, or gives back, a major number.
LEMMA DisplaysMajors ==
  ASSUME Driver = AllDrivers, NEW m \in {"lcd", "lcd_j", "lcd_my", "lcd_4bit"}
  PROVE  Careful(m, "major")
<1>1. PICK c, req, dir, exit :
        /\ IsDisplay(Driver[m], m, c, req, dir, exit)
        /\ req[1] \in Seq(Parts(m, c)) /\ req[2] \in Seq(Parts(m, c))
        /\ dir \in Seq(Parts(m, c)) /\ exit \in Seq(Parts(m, c))
  BY DisplayKinds
<1>2. ASSUME NEW k \in 1..Len(Driver[m].init) PROVE Driver[m].init[k].do # "drop"
  <2>1. \A i \in 1..8 : i \in 1..6 \/ i = 7 \/ i = 8
    OBVIOUS
  <2> QED
    BY <1>1, <2>1 DEF IsDisplay
<1>3. ASSUME NEW s \in Seq(Parts(m, c)), NEW k
      PROVE  Own(m, k, s \o AddError(m, c), "major") /\ Own(m, k, s \o Exit(m, c), "major")
  <2>1. s \o AddError(m, c) \in Seq(Parts(m, c)) /\ s \o Exit(m, c) \in Seq(Parts(m, c))
    BY RegisteredLists, ListedParts
  <2>2. /\ \A r : Listed(s \o AddError(m, c), r) => r.kind # "major"
        /\ \A r : Listed(s \o Exit(m, c), r) => r.kind # "major"
    BY <2>1, RegisteredKinds
  <2> QED
    BY <2>2, OwnNone
<1>4. \A k : Own(m, k, <<>>, "major")
  BY OwnNone, ListedShort
<1>5. \A k \in {1, 5, 6, 7, 8} : Own(m, k, Driver[m].unwind[k], "major")
  BY ZenonT(60), <1>1, <1>3, <1>4 DEF IsDisplay
<1>6. Own(m, Len(Driver[m].init) + 1, Driver[m].exit, "major")
  BY <1>1, <1>3 DEF IsDisplay
<1> QED
  BY <1>2, <1>5, <1>6, DisplaysForget DEF Careful

\* lcd_my.c frees its own pins only.
LEMMA LcdMyPins ==
  ASSUME Driver = AllDrivers
  PROVE  Careful("lcd_my", "pin")
<1>1. PICK m : m = "lcd_my"
  OBVIOUS
<1>2. PICK c, req, dir, exit :
        /\ IsDisplay(Driver[m], m, c, req, dir, exit)
        /\ req[1] = <<>> /\ req[2] = <<Pin("30")>> /\ dir = <<Pin("30")>>
        /\ exit = <<Pin("30"), Pin("26")>>
  BY <1>1, DisplayKinds
<1>3. ASSUME NEW k \in 1..Len(Driver[m].init) PROVE Driver[m].init[k].do # "drop"
  <2>1. \A i \in 1..8 : i \in 1..6 \/ i = 7 \/ i = 8
    OBVIOUS
  <2> QED
    BY <1>2, <2>1 DEF IsDisplay
<1>4. /\ <<>> \in Seq(Parts(m, c)) /\ <<Pin("30")>> \in Seq(Parts(m, c))
      /\ <<Pin("30"), Pin("26")>> \in Seq(Parts(m, c))
      /\ AddError(m, c) \in Seq(Parts(m, c)) /\ Exit(m, c) \in Seq(Parts(m, c))
  BY RegisteredLists DEF Parts
<1>5. \A k \in {6, 7, 8, 9} : Acquired(m, k, Pin("30"))
  <2>1. \A k \in {6, 7, 8, 9} : 5 \in 1..(k - 1)
    OBVIOUS
  <2>2. 5 \in 1..6
    OBVIOUS
  <2> QED
    BY <1>2, <2>1, <2>2 DEF Acquired, IsDisplay
<1>6. Acquired(m, 9, Pin("26"))
  <2>1. 6 \in 1..(9 - 1) /\ 6 \in 1..6
    OBVIOUS
  <2> QED
    BY <1>2, <2>1 DEF Acquired, IsDisplay
<1>7. NoPins(AddError(m, c)) /\ NoPins(Exit(m, c))
  BY RegisteredKinds DEF NoPins
<1>8. ASSUME NEW k PROVE Own(m, k, <<>> \o AddError(m, c), "pin")
  <2>1. OwnedPins(m, k, <<>>)
    BY DEF OwnedPins
  <2> QED
    BY <1>4, <1>7, <2>1, OwnPins
<1>9. ASSUME NEW k \in {6, 7, 8} PROVE Own(m, k, <<Pin("30")>> \o AddError(m, c), "pin")
  <2>1. PICK p : p = <<Pin("30")>>
    OBVIOUS
  <2>2. Len(p) = 1 /\ p[1] = Pin("30") /\ \A i \in 1..1 : i = 1
    BY <2>1
  <2>3. OwnedPins(m, k, p)
    BY <1>5, <2>2, DifferentKinds DEF OwnedPins
  <2> QED
    BY <1>4, <1>7, <2>1, <2>3, OwnPins
<1>10. Own(m, 9, <<Pin("30"), Pin("26")>> \o Exit(m, c), "pin")
  <2>1. PICK p : p = <<Pin("30"), Pin("26")>>
    OBVIOUS
  <2>2. Len(p) = 2 /\ p[1] = Pin("30") /\ p[2] = Pin("26") /\ \A i \in 1..2 : i \in {1, 2}
    BY <2>1
  <2>3. p[1] # p[2] /\ p[1].kind = "pin" /\ p[2].kind = "pin"
    BY <2>2, DifferentKinds
  <2>4. OwnedPins(m, 9, p)
    BY <1>5, <1>6, <2>2, <2>3 DEF OwnedPins
  <2> QED
    BY <1>4, <1>7, <2>1, <2>4, OwnPins
<1>11. \A k : Own(m, k, <<>>, "pin")
  BY OwnNone, ListedShort
<1>12. \A k \in {1, 5, 6, 7, 8} : Own(m, k, Driver[m].unwind[k], "pin")
  BY <1>2, <1>8, <1>9, <1>11 DEF IsDisplay
<1>13. 8 + 1 = 9
  OBVIOUS
<1>14. Own(m, Len(Driver[m].init) + 1, Driver[m].exit, "pin")
  BY <1>2, <1>10, <1>13 DEF IsDisplay
<1> QED
  BY <1>1, <1>3, <1>12, <1>14, DisplaysForget DEF Careful

\* gpio2.c frees its own pins only, and no major number.
LEMMA Gpio2Careful ==
  ASSUME Driver = AllDrivers, NEW kind \in {"pin", "major"}
  PROVE  Careful("gpio2", kind)
<1>1. PICK m, c : m = "gpio2" /\ c = "GPIOModuleClass"
  OBVIOUS
<1>2. Driver[m] = Gpio2 /\ Len(Driver[m].init) = 8 /\ 8 + 1 = 9
  BY <1>1, DriverNames, Gpio2Script
<1>3. ASSUME NEW k \in 1..Len(Driver[m].init) PROVE Driver[m].init[k].do # "drop"
  <2>1. \A i \in 1..8 : i \in {1, 2, 3, 4, 5, 7} \/ i = 6 \/ i = 8
    OBVIOUS
  <2>2. k \in {1, 2, 3, 4, 5, 7} \/ k = 6 \/ k = 8
    BY <1>2, <2>1
  <2> QED
    BY <1>2, <2>2, Gpio2Script
<1>4. /\ <<>> \in Seq(Parts(m, c)) /\ <<Pin("49")>> \in Seq(Parts(m, c))
      /\ <<Pin("30"), Pin("49")>> \in Seq(Parts(m, c))
      /\ AddError(m, c) \in Seq(Parts(m, c)) /\ Exit(m, c) \in Seq(Parts(m, c))
  BY RegisteredLists DEF Parts
<1>5. /\ Gpio2.unwind[1] = <<>> /\ Gpio2.unwind[5] = AddError(m, c)
      /\ Gpio2.unwind[6] = <<Pin("49")>> \o AddError(m, c)
      /\ Gpio2.unwind[7] = AddError(m, c)
      /\ Gpio2.unwind[8] = <<Pin("30"), Pin("49")>> \o AddError(m, c)
      /\ Gpio2.exit = <<Pin("30"), Pin("49")>> \o Exit(m, c)
  BY <1>1, Gpio2Script
<1>6. CASE kind = "major"
  <2>1. /\ <<Pin("49")>> \o AddError(m, c) \in Seq(Parts(m, c))
        /\ <<Pin("30"), Pin("49")>> \o AddError(m, c) \in Seq(Parts(m, c))
        /\ <<Pin("30"), Pin("49")>> \o Exit(m, c) \in Seq(Parts(m, c))
    BY <1>4, ListedParts
  <2>2. \A s \in Seq(Parts(m, c)) : \A k : Own(m, k, s, "major")
    BY RegisteredKinds, OwnNone
  <2>3. /\ \A k \in {1, 5, 6, 7, 8} : Gpio2.unwind[k] \in Seq(Parts(m, c))
        /\ Gpio2.exit \in Seq(Parts(m, c))
    BY <1>4, <1>5, <2>1
  <2>4. /\ \A k \in {1, 5, 6, 7, 8} : Own(m, k, Driver[m].unwind[k], "major")
        /\ Own(m, Len(Driver[m].init) + 1, Driver[m].exit, "major")
    BY <1>2, <2>2, <2>3
  <2> QED
    BY <1>1, <1>3, <1>6, <2>4, Gpio2Forgets DEF Careful
<1>7. CASE kind = "pin"
  <2>1. NoPins(AddError(m, c)) /\ NoPins(Exit(m, c))
    BY RegisteredKinds DEF NoPins
  <2>2. \A k \in {6, 8, 9} : Acquired(m, k, Pin("49"))
    <3>1. \A k \in {6, 8, 9} : 5 \in 1..(k - 1)
      OBVIOUS
    <3> QED
      BY <1>2, <3>1, Gpio2Script DEF Acquired
  <2>3. \A k \in {8, 9} : Acquired(m, k, Pin("30"))
    <3>1. \A k \in {8, 9} : 7 \in 1..(k - 1)
      OBVIOUS
    <3> QED
      BY <1>2, <3>1, Gpio2Script DEF Acquired
  <2>4. \A k : Own(m, k, <<>>, "pin") /\ Own(m, k, AddError(m, c), "pin")
    BY <2>1, OwnNone, ListedShort DEF NoPins
  <2>5. Own(m, 6, <<Pin("49")>> \o AddError(m, c), "pin")
    <3>1. PICK p : p = <<Pin("49")>>
      OBVIOUS
    <3>2. Len(p) = 1 /\ p[1] = Pin("49") /\ \A i \in 1..1 : i = 1
      BY <3>1
    <3>3. OwnedPins(m, 6, p)
      BY <2>2, <3>2, DifferentKinds DEF OwnedPins
    <3> QED
      BY <1>4, <2>1, <3>1, <3>3, OwnPins
  <2>6. \A k \in {8, 9} : OwnedPins(m, k, <<Pin("30"), Pin("49")>>)
    <3>1. PICK p : p = <<Pin("30"), Pin("49")>>
      OBVIOUS
    <3>2. Len(p) = 2 /\ p[1] = Pin("30") /\ p[2] = Pin("49") /\ \A i \in 1..2 : i \in {1, 2}
      BY <3>1
    <3>3. p[1] # p[2] /\ p[1].kind = "pin" /\ p[2].kind = "pin"
      BY <3>2, DifferentKinds
    <3>4. \A k \in {8, 9} : OwnedPins(m, k, p)
      BY <2>2, <2>3, <3>2, <3>3 DEF OwnedPins
    <3> QED
      BY <3>1, <3>4
  <2>7. /\ Own(m, 8, <<Pin("30"), Pin("49")>> \o AddError(m, c), "pin")
        /\ Own(m, 9, <<Pin("30"), Pin("49")>> \o Exit(m, c), "pin")
    BY <1>4, <2>1, <2>6, OwnPins
  <2>8. \A k \in {1, 5, 6, 7, 8} : Own(m, k, Driver[m].unwind[k], "pin")
    BY <1>2, <1>5, <2>4, <2>5, <2>7
  <2>9. Own(m, Len(Driver[m].init) + 1, Driver[m].exit, "pin")
    BY <1>2, <1>5, <2>7
  <2> QED
    BY <1>1, <1>3, <1>7, <2>8, <2>9, Gpio2Forgets DEF Careful
<1> QED
  BY <1>6, <1>7

\* The simple drivers free no pins, and read_write_my.c alone a major number
\* that is not its own.
LEMMA SimpleCareful ==
  ASSUME Driver = AllDrivers, NEW m \in Simple, NEW kind \in {"pin", "major"},
         kind = "major" => m # "read_write_my"
  PROVE  Careful(m, kind)
<1>1. \A k : Own(m, k, <<>>, kind)
  BY DEF Own
<1>2. \A k \in 1..Len(Driver[m].init) :
        Failable(m, k) => Own(m, k, Driver[m].unwind[k], kind)
  BY <1>1, SimpleFailsEarly
<1>3. CASE m = "read_write"
  <2>1. Driver[m] = ReadWrite /\ \A k \in 1..4 : k \in {1, 2, 3, 4}
    BY <1>3, DriverNames
  <2>2. \A k \in 1..Len(Driver[m].init) : Driver[m].init[k].do # "drop"
    BY <2>1, ReadWriteScript
  <2>3. Driver[m].exit = Exit("read_write", "MyModuleClass")
    BY <2>1, ReadWriteScript
  <2>4. \A r : Listed(Driver[m].exit, r) => r.kind \notin {"pin", "beyond", "major"}
    BY <2>3, RegisteredKinds
  <2>5. Own(m, Len(Driver[m].init) + 1, Driver[m].exit, kind)
    BY <2>4, OwnNone
  <2> QED
    BY <1>2, <2>2, <2>5 DEF Careful
<1>4. CASE m = "read_write_my"
  <2>1. /\ Driver[m] = ReadWriteMy /\ kind = "pin"
        /\ \A k \in 1..6 : k \in {1, 2, 3, 4} \/ k = 5 \/ k = 6
    BY <1>4, DriverNames
  <2>2. /\ ReadWriteMy.init[5].res.kind # "pin" /\ ReadWriteMy.init[6].res.kind # "pin"
    BY ReadWriteMyScript, DifferentKinds
  <2>3. \A k \in 1..Len(Driver[m].init) :
          Driver[m].init[k].do = "drop" => Driver[m].init[k].res.kind # "pin"
    BY <2>1, <2>2, ReadWriteMyScript
  <2>4. PICK a, b, c, d : /\ ReadWriteMy.exit = <<a, b, c, d>>
                          /\ a = Of("cdev", "read_write_my") /\ b = Of("node", "read_write_my")
                          /\ c = Of("class", "MyModuleClass") /\ d = Of("major", "160")
    BY ReadWriteMyScript
  <2>5. \A r \in {a, b, c, d} : r.kind \notin {"pin", "beyond"}
    BY <2>4, DifferentKinds
  <2>6. \A r : Listed(<<a, b, c, d>>, r) => r \in {a, b, c, d}
    <3>1. \A i \in 1..4 : i = 1 \/ i = 2 \/ i = 3 \/ i = 4
      OBVIOUS
    <3> QED
      BY <3>1 DEF Listed
  <2>7. \A r : Listed(ReadWriteMy.exit, r) => r.kind \notin {"pin", "beyond"}
    BY <2>4, <2>5, <2>6, Zenon
  <2>8. Own(m, Len(Driver[m].init) + 1, Driver[m].exit, "pin")
    BY <2>1, <2>7, OwnNone
  <2> QED
    BY <1>2, <2>1, <2>3, <2>8 DEF Careful
<1>5. CASE m = "dev_nr"
  <2>1. Driver[m] = DevNr /\ \A k \in 1..1 : k = 1
    BY <1>5, DriverNames
  <2>2. \A k \in 1..Len(Driver[m].init) : Driver[m].init[k].do # "drop"
    BY <2>1, DevNrScript
  <2>3. PICK r, s : r = Of("major", "160") /\ s = <<r>> /\ Driver[m].exit = s
    BY <2>1, DevNrScript
  <2>4. Len(s) = 1 /\ s[1] = r /\ \A i \in 1..1 : i = 1
    BY <2>3
  <2>5. r.kind = "major" /\ Driver[m].init[1].do = "take" /\ Driver[m].init[1].res = r
          /\ Len(Driver[m].init) = 1
    BY <2>1, <2>3, DevNrScript, DifferentKinds
  <2>6. Acquired(m, Len(Driver[m].init) + 1, r)
    <3>1. 1 \in 1..(1 + 1 - 1)
      OBVIOUS
    <3> QED
      BY <2>5, <3>1 DEF Acquired
  <2>7. Own(m, Len(Driver[m].init) + 1, s, kind)
    BY <2>4, <2>5, <2>6 DEF Own
  <2> QED
    BY <1>2, <2>2, <2>3, <2>7 DEF Careful
<1> QED
  BY <1>3, <1>4, <1>5 DEF Simple

\* Which systems are careful.
LEMMA CarefulSystems ==
  ASSUME Driver = AllDrivers, present \subseteq Modules
  PROVE  /\ present \cap {"lcd", "lcd_j", "lcd_4bit"} = {} => AllCareful("pin")
         /\ "read_write_my" \notin present => AllCareful("major")
<1>1. ASSUME present \cap {"lcd", "lcd_j", "lcd_4bit"} = {}, NEW m \in present
      PROVE  Careful(m, "pin")
  <2>1. m \in {"gpio2", "lcd_my"} \cup Simple
    BY <1>1, SimpleOrNot
  <2> QED
    BY <2>1, Gpio2Careful, LcdMyPins, SimpleCareful
<1>2. ASSUME "read_write_my" \notin present, NEW m \in present
      PROVE  Careful(m, "major")
  <2>1. m \in {"gpio2", "lcd", "lcd_j", "lcd_my", "lcd_4bit"} \cup Simple /\ m # "read_write_my"
    BY <1>2, SimpleOrNot
  <2> QED
    BY <2>1, Gpio2Careful, DisplaysMajors, SimpleCareful
<1> QED
  BY <1>1, <1>2 DEF AllCareful

PinInv ==
    /\ CharInv
    /\ \A kind \in {"pin", "major"} : Exclusive(kind) /\ KeptInv(kind)

\* Nobody holds anything at first.
LEMMA PinInvInit == Init => PinInv
<1> SUFFICES ASSUME Init PROVE PinInv
  OBVIOUS
<1>1. CharInv
  BY CharInvInit
<1>2. \A m \in Modules : state[m] = "absent" /\ held[m] = {}
  BY DEF Init
<1>3. \A kind \in {"pin", "major"} : Exclusive(kind) /\ KeptInv(kind)
  BY <1>2 DEF Exclusive, KeptInv, Keeps
<1> QED
  BY <1>1, <1>3 DEF PinInv

\* The invariant of the pins and major numbers is inductive.
LEMMA PinInvStep == PinInv /\ [Next]_vars => PinInv'
<1> SUFFICES ASSUME PinInv, [Next]_vars PROVE PinInv'
  OBVIOUS
<1>1. CharInv'
  BY CharInvStep DEF PinInv
<1>2. CASE UNCHANGED vars
  <2>1. /\ present' = present /\ state' = state /\ next' = next /\ rest' = rest
        /\ held' = held
    BY <1>2 DEF vars
  <2>2. ASSUME NEW kind \in {"pin", "major"} PROVE (Exclusive(kind) /\ KeptInv(kind))'
    <3>1. Exclusive(kind) /\ KeptInv(kind)
      BY DEF PinInv
    <3>2. Exclusive(kind)'
      BY <2>1, <3>1 DEF Exclusive
    <3>3. \A m \in Modules : Keeps(m, kind) => Keeps(m, kind)'
      BY <2>1 DEF Keeps, Coming
    <3>4. AllCareful(kind)' => AllCareful(kind)
      BY <2>1 DEF AllCareful, Careful, Own, Acquired, Failable
    <3> QED
      BY <3>1, <3>2, <3>3, <3>4 DEF KeptInv
  <2> QED
    BY <1>1, <2>2 DEF PinInv
<1>3. CASE Next
  <2>1. ASSUME NEW kind \in {"pin", "major"} PROVE (Exclusive(kind) /\ KeptInv(kind))'
    BY <1>3, ExclusiveStep, KeptStep DEF PinInv
  <2> QED
    BY <1>1, <2>1 DEF PinInv
<1> QED
  BY <1>2, <1>3

\* What a module that is coming up or up may lose, to which step.
LEMMA Losses ==
  ASSUME CharInv, NEW m \in Modules, state[m] \in {"init", "live"},
         NEW n \in Modules, Load(n) \/ Unload(n) \/ ModuleStep(n),
         NEW r \in held[m] \ held'[m]
  PROVE  \/ n = m /\ Initialising(m, "drop") /\ Step(m).res = r
         \/ n # m /\ r.kind \in {"pin", "major"}
<1>1. CharTypes /\ Place(n) /\ r \in Resource
  BY DEF CharInv, CharTypes
<1>2. CASE Release(n)
  <2>1. /\ rest[n] \in Releases /\ rest[n] # <<>> /\ Released(n, Head(rest[n]))
        /\ state[n] \in {"unwind", "exit"}
    BY <1>1, <1>2 DEF CharTypes, Release, Releasing
  <2>2. n # m /\ Head(rest[n]) \in Resource \cup {Beyond}
    BY <2>1, TailLists
  <2>3. \/ r = Head(rest[n]) /\ (m = n \/ Head(rest[n]).kind \in {"pin", "major"})
        \/ Head(rest[n]).kind = "beyond" /\ r.kind = "pin"
    BY <1>1, <2>1, <2>2, ReleasedEffect
  <2> QED
    BY <2>2, <2>3
<1>3. CASE Drop(n)
  <2>1. next[n] \in 1..Len(Driver[n].init) /\ Released(n, Step(n).res) /\ Initialising(n, "drop")
    BY <1>1, <1>3, ScriptTypes DEF Drop, Initialising, Place
  <2>2. Step(n).res \in Resource /\ Step(n).res.kind # "beyond"
    BY <2>1, ScriptTypes DEF Step, Resource, Kinds
  <2>3. r = Step(n).res /\ (m = n \/ Step(n).res.kind \in {"pin", "major"})
    BY <1>1, <2>1, <2>2, ReleasedEffect
  <2> QED
    BY <2>1, <2>3
<1>4. CASE Gone(n)
  <2>1. n # m /\ held' = [held EXCEPT ![n] = {}]
    BY <1>4 DEF Gone
  <2> QED
    BY <1>1, <2>1 DEF CharTypes
<1>5. CASE Take(n)
  BY <1>1, <1>5 DEF Take, CharTypes
<1>6. CASE Load(n) \/ Unload(n) \/ TakeFails(n) \/ Output(n) \/ OutputFails(n) \/ Live(n) \/ Crash(n)
  BY <1>6 DEF Load, Unload, TakeFails, Output, OutputFails, Live, Crash
<1> QED
  BY <1>2, <1>3, <1>4, <1>5, <1>6 DEF ModuleStep

\* With the eight drivers: a module that is coming up or up loses a pin only in
\* a system that loads lcd.c, lcd_j.c or lcd_4bit.c, and a major number only in
\* one that loads read_write_my.c.  gpio2.c and lcd_my.c, which share pin 30,
\* never free what the other has.
THEOREM ForeignReleasesKnown ==
  ASSUME Driver = AllDrivers
  PROVE  Spec => ForeignReleases
<1>1. ASSUME PinInv, [Next]_vars
      PROVE  [\A m \in Modules : state[m] \in {"init", "live"} =>
                \A r \in held[m] \ held'[m] :
                  \/ Initialising(m, "drop") /\ Step(m).res = r
                  \/ r.kind = "pin" /\ present \cap {"lcd", "lcd_j", "lcd_4bit"} # {}
                  \/ r.kind = "major" /\ "read_write_my" \in present]_vars
  <2>1. SUFFICES ASSUME Next, NEW m \in Modules, state[m] \in {"init", "live"},
                        NEW r \in held[m] \ held'[m]
                 PROVE  \/ Initialising(m, "drop") /\ Step(m).res = r
                        \/ r.kind = "pin" /\ present \cap {"lcd", "lcd_j", "lcd_4bit"} # {}
                        \/ r.kind = "major" /\ "read_write_my" \in present
    BY <1>1
  <2>2. CharInv /\ present \subseteq Modules
    BY <1>1, CharAssumption DEF PinInv, CharInv, CharTypes
  <2>3. PICK n \in Modules : Load(n) \/ Unload(n) \/ ModuleStep(n)
    BY <2>1, <2>2, UserMoves DEF Next
  <2>4. CASE n = m
    BY <2>1, <2>2, <2>3, <2>4, Losses
  <2>5. CASE n # m
    <3>1. r.kind \in {"pin", "major"}
      BY <2>1, <2>2, <2>3, <2>5, Losses
    <3>2. ~AllCareful(r.kind)
      BY <1>1, <2>1, <2>2, <2>3, <2>5, <3>1, OthersKeep DEF PinInv
    <3> QED
      BY <2>2, <3>1, <3>2, CarefulSystems
  <2> QED
    BY <2>4, <2>5
<1> QED
  BY <1>1, PinInvInit, PinInvStep, PTL DEF Spec, ForeignReleases
=============================================================================
