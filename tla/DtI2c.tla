-------------------------------- MODULE DtI2c --------------------------------
(***************************************************************************)
(* temp_dt_i2c_22/dt_i2c.c: a driver that reaches its I2C device through   *)
(* one global client and one global entry of /proc.  Several devices may   *)
(* match it; a probe overwrites both globals whatever an earlier one left  *)
(* there.  The I2C core and procfs are external: procfs refuses a name     *)
(* that is taken, and proc_remove waits for the calls inside the file.     *)
(***************************************************************************)
CONSTANTS
    Clients,        \* the devices that match the driver
    At0x10,         \* those at the address it wants
    ProcUsers,      \* the processes that use the file
    NoClient        \* adc_client before the first probe

ASSUME DtAssumption ==
    /\ At0x10 \subseteq Clients
    /\ NoClient \notin Clients

VARIABLES
    loaded,         \* whether the driver is registered
    served,         \* the devices bound to it
    adc_client,     \* the global client
    proc_file,      \* the global entry: "null", "entry", "freed"
    listed,         \* whether /proc has the file
    inside          \* the processes inside my_read or my_write

dtVars == <<loaded, served, adc_client, proc_file, listed, inside>>

DtInit ==
    /\ loaded = TRUE /\ served = {}
    /\ adc_client = NoClient /\ proc_file = "null"
    /\ listed = FALSE /\ inside = {}

\* my_adc_probe up to proc_create, which succeeds.
DtProbe(c) ==
    /\ loaded /\ c \in At0x10 \ served
    /\ adc_client' = c
    /\ ~listed
    /\ proc_file' = "entry" /\ listed' = TRUE
    /\ served' = served \cup {c}
    /\ UNCHANGED <<loaded, inside>>

\* proc_create fails, always so when the name is taken: the probe fails, and
\* both globals have been overwritten.
DtProbeFails(c) ==
    /\ loaded /\ c \in At0x10 \ served
    /\ adc_client' = c
    /\ proc_file' = "null"
    /\ UNCHANGED <<loaded, served, listed, inside>>

\* A device at another address is refused before anything is written.
DtProbeRefused(c) ==
    /\ loaded /\ c \in Clients \ At0x10
    /\ UNCHANGED dtVars

\* Mutant: the file is left to the next probe.
DtRemoveKeeps(c) ==
    /\ loaded /\ c \in served
    /\ served' = served \ {c}
    /\ UNCHANGED <<loaded, adc_client, proc_file, listed, inside>>

\* my_adc_remove: without an entry proc_remove does nothing.
DtRemove(c) ==
    /\ loaded /\ c \in served
    /\ IF proc_file = "null" THEN UNCHANGED <<proc_file, listed>>
       ELSE inside = {} /\ proc_file' = "freed" /\ listed' = FALSE
    /\ served' = served \ {c}
    /\ UNCHANGED <<loaded, adc_client, inside>>

\* module_exit: the driver core has removed every device.
DtUnload ==
    /\ loaded /\ served = {}
    /\ loaded' = FALSE
    /\ UNCHANGED <<served, adc_client, proc_file, listed, inside>>

\* my_read and my_write: one transfer to the global client.
DtCall(u) ==
    /\ listed /\ u \notin inside
    /\ inside' = inside \cup {u}
    /\ UNCHANGED <<loaded, served, adc_client, proc_file, listed>>

DtReturn(u) ==
    /\ u \in inside
    /\ inside' = inside \ {u}
    /\ UNCHANGED <<loaded, served, adc_client, proc_file, listed>>

DtNext ==
    \/ \E c \in Clients :
         DtProbe(c) \/ DtProbeFails(c) \/ DtProbeRefused(c) \/ DtRemove(c)
    \/ DtUnload
    \/ \E u \in ProcUsers : DtCall(u) \/ DtReturn(u)

DtSpec == DtInit /\ [][DtNext]_dtVars
-----------------------------------------------------------------------------
\* A process that can open the file, or is inside it, reaches a device that is
\* bound to a driver that is there, unless a second probe has failed on the
\* name of the file and lost the entry: from then on nothing removes the file,
\* whatever becomes of its device and of the driver.
FileIsServed ==
    listed \/ inside # {} =>
        \/ loaded /\ adc_client \in served
        \/ proc_file = "null"

\* No probe or removal uses an entry that has been freed, and at most one
\* device is bound at a time.
EntryIsFresh ==
    /\ served # {} => listed
    /\ proc_file = "entry" => listed
    /\ served # {} => proc_file # "freed"
    /\ \A c, d \in served : c = d
=============================================================================
