----------------------------- MODULE SourceShim -----------------------------
(***************************************************************************)
(* libBambuSource (cpp/bambu_source.c), the library Studio opens for       *)
(* tunnels.  It loads libbambu_networking.so in its constructor, or in the *)
(* first call that finds it not loaded, and forwards every call through a  *)
(* pointer it looked up.  There is no lock: two loads may interleave.      *)
(***************************************************************************)
EXTENDS Naturals

CONSTANTS
    Loaders,        \* the threads that call
    Opener,         \* the one that opened the library and runs its constructor
    NSymbols        \* the functions, numbered in the order they are looked up

ASSUME ShimAssumption == Opener \in Loaders /\ NSymbols \in Nat \ {0}

Symbols == 1 .. NSymbols

VARIABLES
    installed,      \* libbambu_networking.so can be opened
    exported,       \* the functions it has
    networkModule,  \* network_module is set
    pointers,       \* the fn_* that are set
    phase,          \* where each thread is in the shim
    want,           \* the function it calls; 0: none, the constructor
    lookup          \* the function it looks up next

shim == <<installed, exported, networkModule, pointers, phase, want, lookup>>

ShimTypeOK ==
    /\ installed \in BOOLEAN /\ exported \subseteq Symbols
    /\ networkModule \in BOOLEAN
    /\ pointers \subseteq Symbols
    /\ phase \in [Loaders -> {"idle", "open", "lookup", "call"}]
    /\ want \in [Loaders -> Symbols \cup {0}]
    /\ lookup \in [Loaders -> Symbols]

(* bambu_source_init.  A library of another version may lack a function.   *)
ShimInit ==
    /\ installed \in BOOLEAN
    /\ exported \in {Symbols} \cup {Symbols \ {s} : s \in Symbols}
    /\ networkModule = FALSE
    /\ pointers = {}
    /\ phase = [t \in Loaders |-> IF t = Opener THEN "open" ELSE "idle"]
    /\ want = [t \in Loaders |-> 0]
    /\ lookup = [t \in Loaders |-> 1]

-----------------------------------------------------------------------------
Phase(t, p) == phase' = [phase EXCEPT ![t] = p]

(* The constructor is over before anybody can call.                        *)
Constructed == want[Opener] = 0 => phase[Opener] = "idle"

(* A call: load_network_module answers at once when the module is set,     *)
(* whether or not the functions have been looked up.                       *)
Enter(t, s) ==
    /\ phase[t] = "idle"
    /\ Constructed
    /\ want' = [want EXCEPT ![t] = s]
    /\ Phase(t, IF networkModule THEN "call" ELSE "open")
    /\ UNCHANGED <<installed, exported, networkModule, pointers, lookup>>

(* Mutant: a load that was tried counts as done, also when dlopen failed.  *)
DlopenOnce(t) ==
    /\ phase[t] = "open"
    /\ networkModule' = TRUE
    /\ lookup' = [lookup EXCEPT ![t] = 1]
    /\ Phase(t, IF installed THEN "lookup" ELSE "idle")
    /\ UNCHANGED <<installed, exported, pointers, want>>

(* dlopen: a failure is reported, and the next call tries again.           *)
Dlopen(t) ==
    /\ phase[t] = "open"
    /\ networkModule' = installed
    /\ lookup' = [lookup EXCEPT ![t] = 1]
    /\ Phase(t, IF installed THEN "lookup" ELSE "idle")
    /\ UNCHANGED <<installed, exported, pointers, want>>

(* LOAD_SYM: a function that is missing ends the load with the module set; *)
(* the last one leads on to the call.                                      *)
LoadSym(t) ==
    LET s == lookup[t] IN
    /\ phase[t] = "lookup"
    /\ \/ /\ s \in exported /\ s < NSymbols
          /\ pointers' = pointers \cup {s}
          /\ lookup' = [lookup EXCEPT ![t] = s + 1]
          /\ UNCHANGED phase
       \/ /\ s \in exported /\ s = NSymbols
          /\ pointers' = pointers \cup {s}
          /\ Phase(t, IF want[t] = 0 THEN "idle" ELSE "call")
          /\ UNCHANGED lookup
       \/ /\ s \notin exported
          /\ pointers' = pointers \ {s}
          /\ Phase(t, "idle")
          /\ UNCHANGED lookup
    /\ UNCHANGED <<installed, exported, networkModule, want>>

(* The call goes through the pointer; through a null one it does not       *)
(* return.                                                                 *)
Forward(t) ==
    /\ phase[t] = "call"
    /\ want[t] \in pointers
    /\ Phase(t, "idle")
    /\ UNCHANGED <<installed, exported, networkModule, pointers, want, lookup>>

(* The library is put in its place while Studio runs.                      *)
Install ==
    /\ installed' = TRUE
    /\ UNCHANGED <<exported, networkModule, pointers, phase, want, lookup>>

ShimNext ==
    \/ \E t \in Loaders :
         \/ \E s \in Symbols : Enter(t, s)
         \/ Dlopen(t) \/ LoadSym(t) \/ Forward(t)
    \/ Install

ShimSpec == ShimInit /\ [][ShimNext]_shim

-----------------------------------------------------------------------------
(* A call goes through a null pointer only if the library lacks a function *)
(* or another thread is still looking the functions up: a dlopen that      *)
(* failed, and was tried again, leaves nothing half loaded.                *)
NoNullCall ==
    \A t \in Loaders :
        phase[t] = "call" /\ want[t] \notin pointers =>
            exported # Symbols \/ \E o \in Loaders : phase[o] = "lookup"
=============================================================================
