---------------------------- MODULE SelectorJoin ----------------------------
(***************************************************************************)
(* The join of a project's static style rules with the selectors its       *)
(* compiler gave them (astro-project-adapter/styles/join/                  *)
(* effective-selector-join.ts): a static record knows its file, its style  *)
(* block and its selector; a compiled module knows its path, its block's   *)
(* index and its rules in order.  A path is the sequence of its names; a   *)
(* compiled rule is its source selector, when the scope tokens are taken   *)
(* away, and whether it carried one.                                       *)
(***************************************************************************)
EXTENDS Naturals, Sequences, FiniteSetsExt, SequencesExt

Record(file, block, scoped, selector) ==
    [file |-> file, block |-> block, scoped |-> scoped, selector |-> selector]
Compiled(path, block, rules) == [path |-> path, block |-> block, rules |-> rules]
Rule(selector, tokened) == [selector |-> selector, tokened |-> tokened]

\* The effective selector of a record without one.
NoSelector == [selector |-> "none", tokened |-> FALSE]
Joined(selectors) == [rejected |-> "no", selectors |-> selectors]
Rejected(seam) == [rejected |-> seam, selectors |-> <<>>]

\* blockKey
Key(record) == <<record.file, record.block>>

\* groupScopedBlocks' keys, and the places of a block's records in their order.
ScopedBlocks(records) == {Key(r) : r \in {r \in ToSet(records) : r.scoped}}
PlacesOf(records, key) ==
    SelectSeq([i \in DOMAIN records |-> i],
              LAMBDA i : records[i].scoped /\ Key(records[i]) = key)

\* Mutant: the first file whose name ends the path owns the module.
OwnersShortest(module, files) ==
    LET named == {f \in files : IsSuffix(f, module.path)}
    IN  {f \in named : \A g \in named : Len(f) <= Len(g)}

\* The longest matching file owns a module: at most one.
Owners(module, files) ==
    LET named == {f \in files : IsSuffix(f, module.path)}
    IN  {f \in named : \A g \in named : Len(g) <= Len(f)}

\* indexStyleBlockModules: the modules of a block, the last of which is used.
ModulesOf(key, records, modules) ==
    LET files == {k[1] : k \in ScopedBlocks(records)}
    IN  SelectSeq(modules, LAMBDA m : Owners(m, files) = {key[1]} /\ m.block = key[2])

\* correlateStyleBlock: as many rules as records, each the record's own.
Correlates(records, places, rules) ==
    /\ Len(places) = Len(rules)
    /\ \A n \in DOMAIN places :
           rules[n].tokened /\ rules[n].selector = records[places[n]].selector

\* The rules of a correlated block, each at the place of its record.
RuleAt(i, records, modules) ==
    LET mine == IF records[i].scoped THEN ModulesOf(Key(records[i]), records, modules) ELSE <<>>
        places == PlacesOf(records, Key(records[i]))
        n == CHOOSE n \in DOMAIN places : places[n] = i
    IN  IF mine = <<>> \/ n \notin DOMAIN Last(mine).rules THEN NoSelector
        ELSE Last(mine).rules[n]

\* The blocks the modules name, of the files that have scoped blocks.
NamedBlocks(records, modules) ==
    LET files == {k[1] : k \in ScopedBlocks(records)}
    IN  UNION {{<<f, m.block>> : f \in Owners(m, files)} : m \in ToSet(modules)}

joinEffectiveSelectors(records, modules, requiredScopedFiles) ==
    LET blocks == ScopedBlocks(records)
        named == NamedBlocks(records, modules)
        filesOnRoute == {k[1] : k \in named}
    IN  IF modules # <<>> /\ named = {} THEN Rejected("walk")
        ELSE IF \E k \in blocks \ named : k[1] \in requiredScopedFiles \cup filesOnRoute
        THEN Rejected("block")
        ELSE IF \E k \in blocks \cap named :
                    ~Correlates(records, PlacesOf(records, k),
                                Last(ModulesOf(k, records, modules)).rules)
        THEN Rejected("rules")
        ELSE Joined([i \in DOMAIN records |-> RuleAt(i, records, modules)])

=============================================================================
