------------------------------- MODULE JumpOpt -------------------------------
(***************************************************************************)
(* xkernel load --jump-opt (src/loader.py: try_jump_optimization): the     *)
(* probes in a policy file are moved, one after the other, through their   *)
(* candidate offsets until the kernel reports one as jump-optimized.       *)
(*                                                                         *)
(* The loop keeps its place in the file it edits, by searching the text    *)
(* for the offset it wrote last, and the file outlives it: a killed load   *)
(* leaves the candidate under trial in it, which the next load reads as    *)
(* the original.  The offsets of a probe are a set, tried in order.        *)
(***************************************************************************)
EXTENDS Naturals, FiniteSetsExt, SequencesExt

VARIABLES
  stub,   \* the offsets in the policy's source, by probe
  at,     \* the offsets in its object file, where load attaches
  trial   \* the loop's variables

NoTrial == [probe |-> 0, cand |-> 0, testing |-> FALSE, file |-> 0, read |-> <<>>, selected |-> <<>>]

\* What clang, bpftool and the kernel's list of probes may say of a candidate.
Outcomes == {"compile failed", "load failed", "not optimized", "optimized"}

\* patch_bpf_sec_offset: every probe of the function at the old offset moves.
Patch(src, old, new) == [i \in DOMAIN src |-> IF src[i] = old THEN new ELSE src[i]]

\* The member of S that has n smaller ones
Nth(S, n) == CHOOSE k \in S : Cardinality({j \in S : j < k}) = n

Tuned(sites) == trial.probe \in DOMAIN stub /\ Cardinality(sites[trial.probe]) > 1
Candidate(sites) == Nth(sites[trial.probe], trial.cand - 1)

\* The probes are parsed once; cmd_load has compiled the file before.
Begin ==
  /\ trial' = [NoTrial EXCEPT !.probe = 1, !.cand = 1, !.file = stub[1], !.read = stub]
  /\ at' = stub
  /\ UNCHANGED stub

\* The loop goes on to the next probe, at the offset the parser read for it.
Select(offset) ==
  LET next == trial.probe + 1
  IN trial' = [trial EXCEPT !.probe = next, !.cand = 1, !.testing = FALSE,
                 !.file = IF next \in DOMAIN stub THEN trial.read[next] ELSE 0,
                 !.selected = Append(@, offset)]

Skip(sites) ==
  /\ trial.probe \in DOMAIN stub /\ ~Tuned(sites)
  /\ Select(trial.read[trial.probe])
  /\ UNCHANGED <<stub, at>>

\* Mutant: the loop looks for the offset it parsed, not the one it wrote last.
PlaceFromRead(sites) ==
  /\ Tuned(sites) /\ ~trial.testing
  /\ stub' = Patch(stub, trial.read[trial.probe], Candidate(sites))
  /\ trial' = [trial EXCEPT !.testing = TRUE, !.file = Candidate(sites)]
  /\ UNCHANGED at

Place(sites) ==
  /\ Tuned(sites) /\ ~trial.testing
  /\ stub' = Patch(stub, trial.file, Candidate(sites))
  /\ trial' = [trial EXCEPT !.testing = TRUE, !.file = Candidate(sites)]
  /\ UNCHANGED at

\* A test probe is loaded, looked up and removed.
Test(sites, outcome) ==
  /\ Tuned(sites) /\ trial.testing
  /\ at' = IF outcome = "compile failed" THEN at ELSE stub
  /\ LET original == trial.read[trial.probe]
     IN \/ /\ outcome = "optimized"
           /\ Select(trial.file) /\ UNCHANGED stub
        \/ /\ outcome # "optimized" /\ trial.cand < Cardinality(sites[trial.probe])
           /\ trial' = [trial EXCEPT !.cand = @ + 1, !.testing = FALSE] /\ UNCHANGED stub
        \/ /\ outcome # "optimized" /\ trial.cand = Cardinality(sites[trial.probe])
           /\ Select(original) /\ stub' = Patch(stub, trial.file, original)

\* The last compilation; when it fails the backup is written back and compiled,
\* and when that fails too the object of an earlier candidate stays.
Final ==
  /\ trial.probe > Len(stub)
  /\ \/ at' = stub /\ UNCHANGED stub
     \/ stub' = trial.read /\ at' \in {at, trial.read}
  /\ trial' = NoTrial

\* The load is killed: the file and the object stay as they are.
Killed == trial' = NoTrial /\ UNCHANGED <<stub, at>>

\* What the loop has selected for the probes behind it is in the file, and for
\* those ahead what it parsed.
InPlace ==
  \A i \in DOMAIN trial.read :
    /\ i < trial.probe => stub[i] = trial.selected[i]
    /\ i > trial.probe => stub[i] = trial.read[i]
    /\ i = trial.probe => stub[i] = trial.file
=============================================================================
