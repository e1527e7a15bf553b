-------------------------- MODULE MCScenarioReplay --------------------------
(***************************************************************************)
(* ScenarioReplay for TLC: two scenarios of one event and the demo graph      *)
(* of one leaf and one summary; jobs of every kind, of which the candidate   *)
(* repeats a scenario, and a counterfactual request with operations of every *)
(* kind, whose second variant cannot be resolved.                            *)
(***************************************************************************)
EXTENDS ScenarioReplay

E(text, day, weight) == [text |-> text, day |-> day, weight |-> weight]
S(agent, events, summaries) == [agent |-> <<agent>>, events |-> events, summaries |-> summaries]

Trip == S("trip", <<E("t1", 3, 5)>>, 0)
Work1 == S("work", <<E("w1", 1, 5)>>, 0)
Demo == S("demo", <<E("leaf", 1, 5), E("summary", 2, 5)>>, 1)

Op(op, match, text, day, weight) ==
  [op |-> op, match |-> match, text |-> text, day |-> day, weight |-> weight]
V(id, operations) == [id |-> id, operations |-> operations]

J(kind, plan, variants, force, answer) ==
  [kind |-> kind, plan |-> plan, variants |-> variants, force |-> force, answer |-> answer]

MCJob ==
  {J("candidate", <<Work1, Work1>>, <<>>, FALSE, FALSE),
   J("eval", <<Work1>>, <<>>, FALSE, FALSE),
   J("benchmark", <<Trip>>, <<>>, TRUE, FALSE),
   J("counterfactual", <<Trip>>,
     <<V("v1", <<Op("insert_event_after_day", "", "t0", 0, 5),
                 Op("change_importance", "t1", "", 0, 9),
                 Op("replace_event_text", "t1", "t2", 0, 0),
                 Op("remove_event", "t0", "", 0, 0)>>),
       V("v2", <<Op("insert_event_after_day", "", "t1", 4, 5),
                 Op("remove_event", "t1", "", 0, 0)>>)>>, FALSE, TRUE),
   J("seed", <<Work1>>, <<>>, FALSE, FALSE),
   J("graph", <<Demo>>, <<>>, FALSE, FALSE),
   J("graph", <<Demo>>, <<>>, TRUE, FALSE)}
=============================================================================
