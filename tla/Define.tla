-------------------------------- MODULE Define --------------------------------
(***************************************************************************)
(* The order in which the structs of a program are defined                 *)
(* (define_structs of ser/codegen.c).  A step is a pass over the structs   *)
(* that are left: those of which no dependency is left are defined and     *)
(* leave the map.  The loop ends with a pass that finds none.              *)
(***************************************************************************)
EXTENDS Naturals, SequencesExt, FiniteSets

VARIABLES
    deps,           \* the structs that have to be defined before a struct
    left,           \* the structs in the map of dependencies
    defined         \* the structs in the order of their definitions

to_define == {k \in left : deps[k] \cap left = {}}

\* The structs of a pass are sorted by a prefix of their names, which leaves some in any
\* order: here all are.
Pass ==
    /\ to_define # {}
    /\ \E s \in SetToSeqs(to_define) : defined' = defined \o s
    /\ left' = left \ to_define
    /\ UNCHANGED deps

DefineInit == IsFiniteSet(DOMAIN deps) /\ left = DOMAIN deps /\ defined = <<>>
DefineSpec == DefineInit /\ [][Pass]_<<deps, left, defined>>

\* Every struct is defined at most once and after all that it depends on, and one is left
\* out (the error that is reported) only if the ones left out depend on each other.
DependenciesFirst ==
    /\ \A i, j \in DOMAIN defined : defined[i] = defined[j] => i = j
    /\ \A i \in DOMAIN defined : \A d \in deps[defined[i]] \cap DOMAIN deps :
          \E j \in 1..(i - 1) : defined[j] = d
    /\ to_define = {} =>
          \A k \in DOMAIN deps \ Range(defined) :
              \E d \in deps[k] : d \in DOMAIN deps \ Range(defined)
==============================================================================
