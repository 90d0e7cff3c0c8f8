----------------------------- MODULE MCDisplay -----------------------------
(* One running stream and two files with elements of most kinds; windows   *)
(* of one and two lines; and the options of each dialog.                   *)
EXTENDS Display

E(k, v) == [k |-> k, v |-> v]
R(v) == E("read", v)
W(v) == E("write", v)

AllEvents == Options
MCShownSets == {AllEvents, {"Read", "Write"}}

MCStreams ==
    {<<R(65), R(10), W(65), E("packet", 2), R(65), E("raw", 10), W(10), E("readImm", 1),
       E("overflow", 0), E("overflow", 0), R(65)>>}

MCFiles ==
    {<<R(65), R(10), R(10), R(65), W(65), R(65), E("breakTx", 0), R(10), W(10)>>,
     <<W(65), E("packet", 1), R(65), R(65), R(1), E("modemIn", 3), R(65), E("open", 0)>>}

Plainly == [nl |-> FALSE, skip |-> FALSE, sync |-> FALSE, wrap |-> TRUE, filter |-> FALSE, hides |-> {}]
ByLines == [Plainly EXCEPT !.nl = TRUE, !.wrap = FALSE]
MCLayouts == {Plainly, ByLines, [ByLines EXCEPT !.skip = TRUE, !.sync = TRUE, !.wrap = TRUE],
              [ByLines EXCEPT !.filter = TRUE, !.hides = {"control"}]}
MCProfiles == {[d \in Directions |-> Plainly], [d \in Directions |-> ByLines],
               [read |-> [Plainly EXCEPT !.sync = TRUE], write |-> ByLines]}

MCFrames == {[w |-> 4, h |-> 1], [w |-> 4, h |-> 2]}

F(events, dir, text, forward, wrap) ==
    [events |-> events, dir |-> dir, text |-> text, forward |-> forward, wrap |-> wrap]
MCFinds == {F({}, "read", <<65, 65>>, TRUE, TRUE), F({}, "read", <<10, 65>>, FALSE, TRUE),
            F({"Open", "ModemIn"}, "read", <<>>, TRUE, FALSE)}
=============================================================================
