----------------------------- MODULE MCDiscovery -----------------------------
EXTENDS Discovery, TLC
Row(h, s, ls, b, e) == [head |-> h, state |-> s, labels |-> ls, oid |-> 1, base |-> b, baseOid |-> 1, earlier |-> e,
                        kind |-> "plain", stamp |-> 0]
Of(r, k) == [r EXCEPT !.kind = k]
Crvn == {"caravan"}
NoShadow == <<<<>>, <<>>, <<>>>>
World(n, rs, sh, br) == [name |-> n, remote |-> rs, shadow |-> sh, tips |-> [b \in {"a", "b", "c"} |-> 1],
                         checkout |-> [branch |-> br, oid |-> 1]]
Candidate == Row("c", "open", {}, "main", {})
Later == Row("c", "absent", {}, "main", {})
Root == Row("a", "open", Crvn, "main", {})
Second == Row("b", "open", Crvn, "a", {"main"})

\* Two members, one behind the other, and a candidate.
Fleet == World("fleet", <<Root, Second, Candidate>>, <<<<1, 1>>, <<1, 1>>, <<>>>>, "c")
\* A merged member and its rolling successor; the checkout is still on the merged branch.
Rolling == World("rolling", <<[Root EXCEPT !.state = "merged"], Row("b", "open", Crvn, "main", {"a"}), Later>>, NoShadow, "a")
\* A branch that was merged before, and is used again.
Reused == World("reused", <<Row("a", "merged", {}, "main", {}), Second, Row("a", "open", {}, "main", {})>>, NoShadow, "a")
Again == World("again", <<Row("a", "merged", {}, "main", {}), Second, Later>>, NoShadow, "a")
\* Rows that were closed, and rows that cannot be shown.
Closed == World("closed", <<Row("a", "closed", {"caravan-parked"}, "main", {}), Row("b", "merged", {"caravan", "caravan-closed"}, "main", {}),
                            Candidate>>, NoShadow, "main")
Odd(k) == World(k, <<Root, Of(Second, k), Candidate>>, NoShadow, "c")
\* The second joined behind the root after the root had been behind the second.
Loop == World("loop", <<[Root EXCEPT !.state = "merged", !.earlier = {"b", "main"}], Second, Later>>, NoShadow, "a")

O(w, m, f, t, h, r, c) == [world |-> w, mode |-> m, focus |-> f, target |-> t, historical |-> h, require |-> r, create |-> c]
MCWorlds == {Fleet, Rolling, Reused, Again, Closed} \cup {Odd(k) : k \in {"fork", "gone", "garbled", "truncated"}}
MCPasses ==
  {O("fleet", "fleet", 0, 0, TRUE, FALSE, FALSE), O("fleet", "fleet", 0, 0, FALSE, TRUE, FALSE),
   O("fleet", "focus", 3, 0, FALSE, TRUE, FALSE), O("fleet", "repair", 3, 2, FALSE, TRUE, FALSE),
   O("fleet", "repair", 2, 2, FALSE, TRUE, FALSE), O("fleet", "admission", 3, 0, FALSE, TRUE, FALSE),
   O("rolling", "fleet", 0, 0, FALSE, TRUE, FALSE), O("rolling", "focus", 2, 0, FALSE, FALSE, FALSE),
   O("reused", "focus", 2, 0, FALSE, TRUE, TRUE), O("again", "fleet", 0, 0, FALSE, TRUE, TRUE),
   O("closed", "fleet", 0, 0, TRUE, TRUE, FALSE)}
  \cup {O(k, m, 3, 0, FALSE, TRUE, FALSE) : k \in {"fork", "gone", "garbled", "truncated"}, m \in {"fleet", "focus"}}
MCLoopWorlds == {Loop}
MCLoopPasses == {O("loop", "fleet", 0, 0, TRUE, FALSE, FALSE)}
=============================================================================
