------------------------------ MODULE MCServer ------------------------------
(***************************************************************************)
(* Small instances of two parts of the server, each explored alone: the     *)
(* slots of a daily job with the server's end, and Address Risk lookups.    *)
(***************************************************************************)
EXTENDS RunSlots, RiskLookup, Sequences

CONSTANTS r1, r2, alice, bob

VARIABLE scene

MCRpcs == {"rpc1", "rpc2"}
Good == [last |-> "recent", pending |-> FALSE, rows |-> TRUE, late |-> FALSE]
AllGood == [s \in Local |-> Good]
Calm(chain) == [chain |-> chain, facts |-> {}, elsewhere |-> {}, sync |-> AllGood,
                lists |-> TRUE, blockscout |-> TRUE, troubled |-> TRUE]
Odd == {[Good EXCEPT !.last = "never"], [Good EXCEPT !.last = "old"], [Good EXCEPT !.pending = TRUE],
        [Good EXCEPT !.rows = FALSE], [Good EXCEPT !.late = TRUE]}
MCWorlds ==
  {[Calm("eth") EXCEPT !.facts = {c}]: c \in Clues \ {Clue("eip7702", "flagged")}}
  \union {[Calm("eth") EXCEPT !.facts = {Clue("eip7702", "delegated"), Clue("eip7702", "flagged")}]}
  \union {[Calm("eth") EXCEPT !.sync[s] = st]: s \in {"ofac", "stablecoin", "scam_lookalikes"}, st \in Odd}
  \union {Calm("eth"), [Calm("eth") EXCEPT !.lists = FALSE],
          [Calm("eth") EXCEPT !.blockscout = FALSE, !.facts = {Clue("etherscan", "linked")}]}
  \union {[Calm("sol") EXCEPT !.facts = {Clue("issuer_freeze", "usdc")}, !.elsewhere = e]: e \in {{}, {"usdc"}}}
  \union {[Calm("tron") EXCEPT !.facts = {Clue("tron_stablecoin", "listed")}],
          [Calm("tron") EXCEPT !.facts = {Clue("issuer_freeze", "usdc")}], Calm("base"), Calm("btc"), Calm("op")}
Quiet == [Calm("eth") EXCEPT !.troubled = FALSE]
AllWorlds == MCWorlds \union {Quiet}
\* One call fails, or two that stand in for one another.
Pairs == {<<c, d>> \in Calls \X Calls: c[1] = d[1] /\ (Len(c) = 3 => c[2] = d[2])}
           \union {<<<<"etherscan">>, <<"fallback">>>>, <<<<"refused">>, <<"fallback">>>>}
           \union {<<c, <<"canonical">>>>: c \in AccountCalls}
MCFaults == {{}} \union {{p[1], p[2]}: p \in Pairs}

\* What each scene may do.
InScene ==
  /\ \A r \in Lookups: asking'[r] # Idle =>
       CASE scene = "lookups" -> r = r1 /\ asking'[r].key.addr = alice
         [] scene = "profile" -> asking'[r].key.bq /\ (r = r2 => asking'[r].key.addr = alice)
         [] scene = "billing" -> asking'[r].key.bq /\ asking'[r].key.addr = alice
         [] OTHER -> FALSE
  /\ scene # "profile" => window' = -1
  /\ scene = "profile" => /\ changes' = 0
                          /\ \A a \in Addresses: profiles'[a].status # "over_budget"
                          /\ \A k \in Keys: told'[k] # "error"

MCInit ==
  /\ scene \in {"slots", "lookups", "profile", "billing"}
  /\ SlotsInit /\ LookupInit
  /\ scene = "lookups" <=> world # Quiet
  /\ keyed

MCNext ==
  /\ UNCHANGED scene
  /\ \/ scene = "slots" /\ SlotsNext /\ UNCHANGED lookupVars
     \/ scene # "slots" /\ LookupNext /\ InScene /\ UNCHANGED slotVars
        /\ (scene = "lookups" => ~LookupTick /\ ~\E k \in Keys: GiveUp(k))

MCSpec == MCInit /\ [][MCNext]_<<slotVars, lookupVars, scene>> /\ SlotFairness

=============================================================================
