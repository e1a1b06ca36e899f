---- MODULE MCEdge ----
EXTENDS Edge

PR(action, head) == [event |-> "pull_request", action |-> action, head |-> head, base |-> "b1"]
MCContent ==
    [open1 |-> PR("opened", "h1"), open2 |-> PR("opened", "h1"), sync |-> PR("synchronize", "h2"),
     close |-> PR("closed", "h1"), label |-> PR("labeled", "h1"),
     push |-> [event |-> "push", action |-> "-", tracked |-> TRUE, deleted |-> FALSE, head |-> "-", base |-> "b1"],
     uninstall |-> [event |-> "installation", action |-> "deleted", head |-> "-", base |-> "-"]]

MCCast(guids, n, requests) ==
    [guids |-> guids, posts |-> n, requests |-> requests, badsig |-> 0, scheduler |-> FALSE, expiry |-> FALSE]
\* Two requests race with equal content or the same GUID; deliveries of one
\* pull request overtake each other; signatures fail.
MCCasts ==
    {MCCast({"open1", "open2"}, 2, {"r1", "r2"}),
     [MCCast({"open1", "open2"}, 2, {"r1"}) EXCEPT !.expiry = TRUE],
     MCCast({"open1", "sync", "close"}, 3, {"r1"}),
     [MCCast({"open1", "push", "uninstall"}, 2, {"r1"}) EXCEPT !.scheduler = TRUE],
     [MCCast({"label"}, 1, {"r1"}) EXCEPT !.badsig = 2]}
====
