----------------------------- MODULE ImageDiff -----------------------------
(***************************************************************************)
(* diff.py --vmlinux, run by hand beside the tools of CodeGen: it compares *)
(* the functions of two whole kernels and prints where a probe would go.   *)
(* Which functions to compare it is told, or it finds out from the listing *)
(* of the file's object, in which every function begins at address 0 of a  *)
(* section of its own.                                                     *)
(***************************************************************************)
EXTENDS CodeGen

CONSTANTS
  Neighbours,    \* what may stand before, or behind, the function in its file
  Compared       \* the functions that are compared in this way as well

ASSUME ImageAssumption ==
  /\ Neighbours \subseteq Seq(Seq(Instruction)) /\ Compared \subseteq Functions
  /\ \A others \in Neighbours : \A i \in DOMAIN others : FixedTargets(others[i])

VARIABLES
  stage,    \* of the command
  file,     \* the functions of the source file
  told,     \* the functions are named on the command line
  affected, \* the functions that are compared
  points    \* the attachment points printed for each of them

command == <<stage, file, told, affected, points>>
imageVars == <<vars, command>>

Original == Samples[1]
Modified == Samples[2]

InitImages ==
  /\ Init
  /\ stage = "none" /\ file = <<>> /\ told = FALSE /\ affected = {} /\ points = <<>>

----------------------------------------------------------------------------
(* Phase 1: the functions that differ *)

\* The lines of function i in the listing, which has those of fs in their order
Lines(fs, i) ==
  LET before == Len(FlattenSeq(SubSeq(fs, 1, i - 1)))
  IN (before + 1)..(before + Len(fs[i]))
Line(fs, i, k) == Min(Lines(fs, i)) + k - 1

\* The lines of function i that the filter leaves of listing u
ListingKept(fs, i, u, v) ==
  LET shown == UNION {{Line(fs, j, k) : k \in Changed(fs[j], u, v)} : j \in DOMAIN fs}
      kept  == Filtered(FlattenSeq(fs), shown, u, v)
  IN {k \in DOMAIN fs[i] : Line(fs, i, k) \in kept}

\* The functions with an instruction at an address of the original listing
Holders(fs, a) ==
  {i \in DOMAIN fs : \E k \in DOMAIN fs[i] : Address(fs[i], k, Original) = a}

\* Mutant: the first function that has the address.
FirstAt(fs, a) == {i \in Holders(fs, a) : \A j \in Holders(fs, a) : i <= j}

\* find_function_for_address_in_file, without a line number: the last one
FunctionAt(fs, a) == {i \in Holders(fs, a) : \A j \in Holders(fs, a) : j <= i}

\* detect_affected_functions_from_diff: the functions of all lines that are left,
\* those of the modified listing looked up in the original one as well
AffectedFunctions(fs) ==
  LET of(u, v) == UNION {{Address(fs[i], k, u) : k \in ListingKept(fs, i, u, v)} : i \in DOMAIN fs}
  IN UNION {FunctionAt(fs, a) : a \in of(Original, Modified) \cup of(Modified, Original)}

\* The object is built, the source changed, built again and put back.
Detect(fs) ==
  /\ stage = "none"
  /\ file' = fs /\ told' = FALSE /\ affected' = AffectedFunctions(fs)
  /\ stage' = IF affected' = {} THEN "over" ELSE "chosen"
  /\ UNCHANGED <<vars, points>>

\* --func
Tell(fs, names) ==
  /\ stage = "none"
  /\ file' = fs /\ told' = TRUE /\ affected' = names /\ stage' = "chosen"
  /\ UNCHANGED <<vars, points>>

----------------------------------------------------------------------------
(* Phase 2: the two kernels *)

\* The lines that differ between the function's listings from the two images, in
\* which it may have moved: all of them have other addresses then.
ImageChanged(f, moved) == IF moved THEN DOMAIN f ELSE Changed(f, Original, Modified)

\* find_next_instruction_offset, of every line left of the original listing
PointsOf(f, moved) ==
  {k + 1 : k \in Filtered(f, ImageChanged(f, moved), Original, Modified)} \cap DOMAIN f

\* Both kernels are built, and the listings of each function compared; moved are
\* the functions that have other addresses in the second.
Compare(moved) ==
  /\ stage = "chosen"
  /\ points' = [i \in affected |-> PointsOf(file[i], i \in moved)]
  /\ stage' = "over"
  /\ UNCHANGED <<vars, file, told, affected>>

NextImages ==
  \/ Next /\ stage = "none" /\ UNCHANGED command
  \/ phase = "source" /\ func \in Compared /\ \E others \in Neighbours :
       \E fs \in {others \o <<func>>, <<func>> \o others} :
         Detect(fs) \/ \E names \in (SUBSET DOMAIN fs) \ {{}} : Tell(fs, names)
  \/ \E moved \in SUBSET affected : Compare(moved)

SpecImages == InitImages /\ [][NextImages]_imageVars

----------------------------------------------------------------------------
UsesOf(f) == {k \in DOMAIN f : Varies(f[k])}

\* Every use differs between the two builds.
Shown ==
  \A i \in DOMAIN file : \A k \in UsesOf(file[i]) :
    file[i][k].src.v[Original] # file[i][k].src.v[Modified]

\* No use in listing u looks like something else in listing v.
Unlike(u, v) ==
  \A i, j \in DOMAIN file : \A k \in UsesOf(file[i]), l \in DOMAIN file[j] :
    <<i, k>> # <<j, l>> => Signature(file[i][k], u) # Signature(file[j][l], v)

\* No later function has an instruction at an address of a use, and no earlier one
\* has where its own function has none.
Unshadowed ==
  \A i \in DOMAIN file : \A k \in UsesOf(file[i]), V \in {Original, Modified} :
    LET H == Holders(file, Address(file[i], k, V))
    IN \A j \in H : i \in H /\ j <= i

\* The command finds the functions that use the constant, and prints for each
\* the places behind its uses, wherever the function has moved.
PointsFollowUses ==
  stage \in {"chosen", "over"} /\ Shown /\ Unlike(Original, Modified) =>
    /\ ~told /\ Unlike(Modified, Original) /\ Unshadowed =>
         affected = {i \in DOMAIN file : UsesOf(file[i]) # {}}
    /\ \A i \in DOMAIN points : points[i] = {k + 1 : k \in UsesOf(file[i])} \cap DOMAIN file[i]
=============================================================================
