--------------------------- MODULE MCBuildPipeline ---------------------------
(* BuildPipeline with its index tables, on TOML files of one and of two      *)
(* tunables, one with two probes.                                            *)
EXTENDS IndexTables

OneOrTwo == {<<t>> : t \in Tunables} \cup {<<t, u>> : t, u \in Tunables}

\* The second probe of "a" changes the same instruction as the probe of "b".
OneOrTwoTexts ==
  [b \in Blocks |-> CASE "a" \in b.changed -> <<"shr $0x3,%eax", "cmp %edx,%eax">>
                      [] b.changed = {"b"}  -> <<"cmp %edx,%eax">>
                      [] OTHER              -> <<>>]
=============================================================================
