------------------------- MODULE SourceShim_proofs -------------------------
(* The shim calls no null pointer, for any number of threads and           *)
(* functions, unless a function is missing or a load is under way.         *)
EXTENDS SourceShim, TLAPS

(* The library stays where it is, so a second dlopen answers as the first: *)
(* who looks up, or is about to call, did find the module.                 *)
CallNeedsModule ==
    /\ networkModule => installed
    /\ \A t \in Loaders :
         /\ phase[t] \in {"lookup", "call"} => networkModule
         /\ phase[t] = "call" => want[t] \in Symbols

(* A module that is set has its functions looked up, or somebody is at it, *)
(* and has those before.                                                   *)
Loading ==
    exported = Symbols =>
        /\ networkModule =>
             pointers = Symbols \/ \E o \in Loaders : phase[o] = "lookup"
        /\ \A o \in Loaders :
             phase[o] = "lookup" => \A s \in Symbols : s < lookup[o] => s \in pointers

ShimInv == ShimTypeOK /\ Loading /\ CallNeedsModule

LEMMA TypeStep == ASSUME ShimTypeOK, [ShimNext]_shim PROVE ShimTypeOK'
<1> USE ShimAssumption DEF ShimTypeOK, Symbols, Phase
<1>1. ASSUME NEW t \in Loaders, NEW s \in Symbols, Enter(t, s) PROVE ShimTypeOK'
  BY <1>1 DEF Enter
<1>2. ASSUME NEW t \in Loaders, Dlopen(t) PROVE ShimTypeOK'
  BY <1>2 DEF Dlopen
<1>3. ASSUME NEW t \in Loaders, LoadSym(t) PROVE ShimTypeOK'
  <2>1. lookup[t] \in Symbols /\ (lookup[t] < NSymbols => lookup[t] + 1 \in Symbols)
    BY <1>3
  <2>2. pointers' \subseteq Symbols
    BY <1>3, <2>1 DEF LoadSym
  <2>3. lookup' \in [Loaders -> Symbols]
    BY <1>3, <2>1 DEF LoadSym
  <2>4. phase' \in [Loaders -> {"idle", "open", "lookup", "call"}]
    BY <1>3 DEF LoadSym
  <2> QED
    BY <1>3, <2>2, <2>3, <2>4 DEF LoadSym
<1>4. ASSUME NEW t \in Loaders, Forward(t) PROVE ShimTypeOK'
  BY <1>4 DEF Forward
<1>5. ASSUME Install PROVE ShimTypeOK'
  BY <1>5 DEF Install
<1>6. CASE UNCHANGED shim
  BY <1>6 DEF shim
<1> QED
  BY <1>1, <1>2, <1>3, <1>4, <1>5, <1>6 DEF ShimNext

LEMMA ModuleStep ==
    ASSUME ShimTypeOK, CallNeedsModule, [ShimNext]_shim
    PROVE  CallNeedsModule'
<1> USE ShimAssumption DEF ShimTypeOK, CallNeedsModule, Phase
<1>1. ASSUME NEW t \in Loaders, NEW s \in Symbols, Enter(t, s) PROVE CallNeedsModule'
  BY <1>1 DEF Enter
<1>2. ASSUME NEW t \in Loaders, Dlopen(t) PROVE CallNeedsModule'
  BY <1>2 DEF Dlopen
<1>3. ASSUME NEW t \in Loaders, LoadSym(t) PROVE CallNeedsModule'
  BY <1>3 DEF LoadSym
<1>4. ASSUME NEW t \in Loaders, Forward(t) PROVE CallNeedsModule'
  BY <1>4 DEF Forward
<1>5. ASSUME Install PROVE CallNeedsModule'
  BY <1>5 DEF Install
<1>6. CASE UNCHANGED shim
  BY <1>6 DEF shim
<1> QED
  BY <1>1, <1>2, <1>3, <1>4, <1>5, <1>6 DEF ShimNext

LEMMA LoadingStep ==
    ASSUME ShimTypeOK, CallNeedsModule, Loading, [ShimNext]_shim
    PROVE  Loading'
<1> USE ShimAssumption DEF ShimTypeOK, CallNeedsModule, Loading, Symbols, Phase
<1>1. ASSUME NEW t \in Loaders, NEW s \in Symbols, Enter(t, s) PROVE Loading'
  BY <1>1 DEF Enter
<1>2. ASSUME NEW t \in Loaders, Dlopen(t) PROVE Loading'
  <2>1. CASE installed
    BY <1>2, <2>1 DEF Dlopen
  <2>2. CASE ~installed
    BY <1>2, <2>2 DEF Dlopen
  <2> QED
    BY <2>1, <2>2
<1>3. ASSUME NEW t \in Loaders, LoadSym(t) PROVE Loading'
  <2> SUFFICES ASSUME exported = Symbols
              PROVE  /\ pointers' = Symbols \/ \E o \in Loaders : phase'[o] = "lookup"
                     /\ \A o \in Loaders : phase'[o] = "lookup" =>
                          \A s \in Symbols : s < lookup'[o] => s \in pointers'
    BY <1>3 DEF LoadSym
  <2>1. CASE lookup[t] < NSymbols
    <3>1. /\ pointers' = pointers \cup {lookup[t]} /\ phase' = phase
          /\ lookup' = [lookup EXCEPT ![t] = lookup[t] + 1] /\ phase[t] = "lookup"
      BY <1>3, <2>1 DEF LoadSym
    <3> QED
      BY <3>1
  <2>2. CASE lookup[t] = NSymbols
    <3>1. /\ pointers' = pointers \cup {lookup[t]} /\ lookup' = lookup
          /\ phase[t] = "lookup"
          /\ phase' = [phase EXCEPT ![t] = IF want[t] = 0 THEN "idle" ELSE "call"]
      BY <1>3, <2>2 DEF LoadSym
    <3>2. pointers' = Symbols
      <4>1. \A s \in Symbols : s < NSymbols => s \in pointers
        BY <2>2, <3>1
      <4>2. \A s \in Symbols : s < NSymbols \/ s = NSymbols
        OBVIOUS
      <4>3. pointers \subseteq Symbols /\ NSymbols \in Symbols
        OBVIOUS
      <4> HIDE DEF Symbols
      <4> QED
        BY <2>2, <3>1, <4>1, <4>2, <4>3
    <3> QED
      BY <3>1, <3>2
  <2> QED
    BY <2>1, <2>2
<1>4. ASSUME NEW t \in Loaders, Forward(t) PROVE Loading'
  BY <1>4 DEF Forward
<1>5. ASSUME Install PROVE Loading'
  BY <1>5 DEF Install
<1>6. CASE UNCHANGED shim
  BY <1>6 DEF shim
<1> QED
  BY <1>1, <1>2, <1>3, <1>4, <1>5, <1>6 DEF ShimNext

(* A call through a null pointer needs a library that lacks a function, or *)
(* a load that is still under way (load_network_module).                   *)
THEOREM NoNullCallAlways == ShimSpec => []NoNullCall
<1>1. ShimInit => ShimInv
  <2> SUFFICES ASSUME ShimInit PROVE ShimInv
    OBVIOUS
  <2>1. ShimTypeOK
    <3>1. 1 \in Symbols /\ installed \in BOOLEAN /\ exported \subseteq Symbols
      BY ShimAssumption DEF ShimInit, Symbols
    <3>2. phase \in [Loaders -> {"idle", "open", "lookup", "call"}]
      BY DEF ShimInit
    <3> QED
      BY <3>1, <3>2, Zenon DEF ShimInit, ShimTypeOK
  <2>2. CallNeedsModule /\ Loading
    BY DEF ShimInit, CallNeedsModule, Loading
  <2> QED
    BY <2>1, <2>2 DEF ShimInv
<1>2. ShimInv /\ [ShimNext]_shim => ShimInv'
  BY TypeStep, ModuleStep, LoadingStep DEF ShimInv
<1>3. ShimInv => NoNullCall
  BY DEF ShimInv, CallNeedsModule, Loading, NoNullCall
<1> QED
  BY <1>1, <1>2, <1>3, PTL DEF ShimSpec
=============================================================================
