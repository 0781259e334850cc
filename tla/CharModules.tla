----------------------------- MODULE CharModules -----------------------------
(***************************************************************************)
(* How the character drivers come and go: ModuleInit acquires a device     *)
(* number, a class, a device file, a cdev and pins one after the other,    *)
(* unwinds through its goto labels when it notices that one of them has    *)
(* failed, and ModuleExit releases them.  Modules are loaded and unloaded  *)
(* side by side, and users open the device files meanwhile.  CharDrivers   *)
(* lists what each driver acquires and releases; this module runs it.      *)
(***************************************************************************)
EXTENDS Integers, Sequences

CONSTANTS
    Driver,         \* the drivers: a function from names to Script
    Selections,     \* sets of modules that are loaded in one system
    Users,          \* the processes that open device files
    Faulty          \* the acquisitions that may fail for reasons of their own

Modules == DOMAIN Driver

\* What a module may hold: kinds "region" (a device number), "major" (one
\* asked for by number), "class", "node" (the device file), "cdev" and "pin".
\* What lies beyond the end of a pin table is a pin that nobody knows.
Kinds == {"region", "major", "class", "node", "cdev", "pin"}
Resource == [kind : Kinds, id : STRING]
Beyond == [kind |-> "beyond", id |-> "any"]

\* A driver: the steps of its ModuleInit, what is released after the failure
\* of each step, and what its ModuleExit releases.
InitStep == [do : {"take", "output", "drop"}, res : Resource]
Releases == Seq(Resource \cup {Beyond})

ASSUME CharAssumption ==
    /\ \A m \in Modules :
         /\ Driver[m].init \in Seq(InitStep)
         /\ Driver[m].unwind \in [1..Len(Driver[m].init) -> Releases]
         /\ Driver[m].exit \in Releases
    /\ Selections \subseteq SUBSET Modules
    /\ Faulty \subseteq Kinds \cup {"output"}

VARIABLES
    present,        \* the modules this system loads
    state,          \* where each module is in its life
    next,           \* the next step of ModuleInit, or the one that has failed
    rest,           \* what is still to be released
    my_class,       \* "unset", "class", "error" (an error pointer), "freed"
    held,           \* what each module has registered and not released
    orphans,        \* what no module is left to release
    file            \* the module whose file each user has open

vars == <<present, state, next, rest, my_class, held, orphans, file>>

NoFile == "no file"         \* the user has no file open
FreedCode == "freed code"   \* its file belongs to a module that is gone

States == {"absent", "init", "unwind", "live", "exit", "crashed"}

Step(m) == Driver[m].init[next[m]]

\* Names and pins are exclusive; device numbers are handed out afresh.
Taken(r) ==
    /\ r.kind \in {"major", "class", "pin"}
    /\ r \in orphans \/ \E m \in Modules : r \in held[m]

\* class_create and device_create return an error pointer and cdev_add an
\* error number, which no comparison with NULL or -1 ever finds.
Noticed(r) == r.kind \in {"region", "major", "pin"}
-----------------------------------------------------------------------------
Init ==
    /\ present \in Selections
    /\ state = [m \in Modules |-> "absent"]
    /\ next = [m \in Modules |-> 1]
    /\ rest = [m \in Modules |-> <<>>]
    /\ my_class = [m \in Modules |-> "unset"]
    /\ held = [m \in Modules |-> {}]
    /\ orphans = {}
    /\ file = [u \in Users |-> NoFile]

\* A fresh copy of the module enters its ModuleInit.
Load(m) ==
    /\ m \in present
    /\ state[m] = "absent"
    /\ state' = [state EXCEPT ![m] = "init"]
    /\ UNCHANGED <<present, next, rest, my_class, held, orphans, file>>

Initialising(m, do) ==
    /\ state[m] = "init"
    /\ next[m] <= Len(Driver[m].init)
    /\ Step(m).do = do

\* ModuleInit acquires a resource; a device file needs the class.
Take(m) ==
    /\ Initialising(m, "take")
    /\ LET r == Step(m).res
       IN  /\ ~Taken(r)
           /\ r.kind = "node" => my_class[m] = "class"
           /\ held' = [held EXCEPT ![m] = @ \cup {r}]
           /\ my_class' = IF r.kind = "class" THEN [my_class EXCEPT ![m] = "class"]
                          ELSE my_class
    /\ next' = [next EXCEPT ![m] = @ + 1]
    /\ UNCHANGED <<present, state, rest, orphans, file>>

\* ModuleInit jumps to the label of the step that has failed.
Unwind(m) ==
    /\ state' = [state EXCEPT ![m] = "unwind"]
    /\ rest' = [rest EXCEPT ![m] = Driver[m].unwind[next[m]]]

\* An acquisition fails: ModuleInit unwinds, or goes on as if it had not.
TakeFails(m) ==
    /\ Initialising(m, "take")
    /\ LET r == Step(m).res
       IN  /\ \/ Taken(r)
              \/ r.kind \in Faulty
              \/ r.kind = "node" /\ my_class[m] # "class"
           /\ IF Noticed(r) THEN Unwind(m) /\ UNCHANGED next
              ELSE next' = [next EXCEPT ![m] = @ + 1] /\ UNCHANGED <<state, rest>>
           /\ my_class' = IF r.kind = "class" THEN [my_class EXCEPT ![m] = "error"]
                          ELSE my_class
    /\ UNCHANGED <<present, held, orphans, file>>

\* gpio_direction_output or gpio_direction_input, and its failure.
Output(m) ==
    /\ Initialising(m, "output")
    /\ next' = [next EXCEPT ![m] = @ + 1]
    /\ UNCHANGED <<present, state, rest, my_class, held, orphans, file>>

OutputFails(m) ==
    /\ Initialising(m, "output")
    /\ "output" \in Faulty
    /\ Unwind(m)
    /\ UNCHANGED <<present, next, my_class, held, orphans, file>>

\* ModuleInit returns 0.
Live(m) ==
    /\ state[m] = "init"
    /\ next[m] > Len(Driver[m].init)
    /\ state' = [state EXCEPT ![m] = "live"]
    /\ UNCHANGED <<present, next, rest, my_class, held, orphans, file>>

\* One release, r, that returns.  gpio_free and unregister_chrdev go by the
\* number and never ask who holds it.  device_destroy and class_destroy follow
\* my_class, which may have been freed; class_destroy ignores an error pointer.
\* A freed class is still there or unmapped: that its memory has been given to
\* another class meanwhile, which class_destroy would then destroy, is left out.
Released(m, r) ==
    CASE r.kind \in {"pin", "major"} ->
           /\ held' = [n \in Modules |-> held[n] \ {r}]
           /\ orphans' = orphans \ {r}
           /\ UNCHANGED my_class
      [] r.kind = "beyond" ->
           \E p \in {q \in UNION {held[n] : n \in Modules} \cup orphans :
                       q.kind = "pin"} \cup {Beyond} :
             /\ held' = [n \in Modules |-> held[n] \ {p}]
             /\ orphans' = orphans \ {p}
             /\ UNCHANGED my_class
      [] r.kind = "node" ->
           /\ my_class[m] # "error"
           /\ held' = [held EXCEPT ![m] = @ \ {r}]
           /\ UNCHANGED <<my_class, orphans>>
      [] r.kind = "class" ->
           /\ held' = [held EXCEPT ![m] = @ \ {r}]
           /\ my_class' = [my_class EXCEPT ![m] = IF @ = "error" THEN @ ELSE "freed"]
           /\ UNCHANGED orphans
      [] r.kind \in {"region", "cdev"} ->
           /\ held' = [held EXCEPT ![m] = @ \ {r}]
           /\ UNCHANGED <<my_class, orphans>>

\* Whether a release may crash: it follows a pointer that leads nowhere.
MayCrash(m, r) ==
    \/ r.kind = "node" /\ my_class[m] \in {"error", "freed"}
    \/ r.kind = "class" /\ my_class[m] = "freed"

\* ModuleInit releases something on its way to returning 0.
Drop(m) ==
    /\ Initialising(m, "drop")
    /\ Released(m, Step(m).res)
    /\ next' = [next EXCEPT ![m] = @ + 1]
    /\ UNCHANGED <<present, state, rest, file>>

\* The next release of the unwinding or of ModuleExit.
Releasing(m, r) ==
    /\ state[m] \in {"unwind", "exit"}
    /\ rest[m] # <<>>
    /\ r = Head(rest[m])

Release(m) ==
    /\ Releasing(m, Head(rest[m]))
    /\ Released(m, Head(rest[m]))
    /\ rest' = [rest EXCEPT ![m] = Tail(@)]
    /\ UNCHANGED <<present, state, next, file>>

\* The release is an oops: the thread dies, the module never leaves.
Crash(m) ==
    /\ \/ Initialising(m, "drop") /\ MayCrash(m, Step(m).res)
       \/ Releasing(m, Head(rest[m])) /\ MayCrash(m, Head(rest[m]))
    /\ state' = [state EXCEPT ![m] = "crashed"]
    /\ UNCHANGED <<present, next, rest, my_class, held, orphans, file>>

\* Mutant: rmmod of a module in use.
UnloadInUse(m) ==
    /\ state[m] = "live"
    /\ state' = [state EXCEPT ![m] = "exit"]
    /\ rest' = [rest EXCEPT ![m] = Driver[m].exit]
    /\ UNCHANGED <<present, next, my_class, held, orphans, file>>

\* rmmod: the files count as users of the module, through fops.owner.
Unload(m) ==
    /\ state[m] = "live"
    /\ \A u \in Users : file[u] # m
    /\ state' = [state EXCEPT ![m] = "exit"]
    /\ rest' = [rest EXCEPT ![m] = Driver[m].exit]
    /\ UNCHANGED <<present, next, my_class, held, orphans, file>>

\* ModuleExit or a failed ModuleInit returns and the module's memory is freed,
\* whatever it has left registered and whoever has its file open.
Gone(m) ==
    /\ state[m] \in {"unwind", "exit"}
    /\ rest[m] = <<>>
    /\ state' = [state EXCEPT ![m] = "absent"]
    /\ next' = [next EXCEPT ![m] = 1]
    /\ my_class' = [my_class EXCEPT ![m] = "unset"]
    /\ orphans' = orphans \cup held[m]
    /\ held' = [held EXCEPT ![m] = {}]
    /\ file' = [u \in Users |-> IF file[u] = m THEN FreedCode ELSE file[u]]
    /\ UNCHANGED <<present, rest>>

\* A user opens the device file: the kernel refuses while the module is going.
Open(u, m) ==
    /\ file[u] = NoFile
    /\ state[m] \in {"init", "unwind", "live"}
    /\ \/ {"node", "cdev"} \subseteq {r.kind : r \in held[m]}
       \/ \E r \in held[m] : r.kind = "major"
    /\ file' = [file EXCEPT ![u] = m]
    /\ UNCHANGED <<present, state, next, rest, my_class, held, orphans>>

\* A file whose code has been freed cannot be closed any more.
Close(u) ==
    /\ file[u] \in Modules
    /\ file' = [file EXCEPT ![u] = NoFile]
    /\ UNCHANGED <<present, state, next, rest, my_class, held, orphans>>

ModuleStep(m) ==
    \/ Take(m) \/ TakeFails(m) \/ Output(m) \/ OutputFails(m) \/ Drop(m)
    \/ Live(m) \/ Release(m) \/ Crash(m) \/ Gone(m)

Next ==
    \/ \E m \in Modules : Load(m) \/ Unload(m) \/ ModuleStep(m)
    \/ \E u \in Users : Close(u) \/ \E m \in Modules : Open(u, m)

Spec == Init /\ [][Next]_vars
=============================================================================
