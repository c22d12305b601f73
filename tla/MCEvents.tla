------------------------------ MODULE MCEvents ------------------------------
EXTENDS Events

Kinds == {"emits", "breaks", "loadfails", "restarts", "settings", "stop", "sound", "levels", "dev", "losses", "stalls",
          "sensor", "fetch", "site", "connects", "disconnects", "writes", "apis", "rotations", "fails", "crashes", "faults", "moves",
          "provisions", "patches", "deletes", "plugs", "leaves"}

Budget(b) == [k \in Kinds |-> IF k \in DOMAIN b THEN b[k] ELSE 0]

Page == [parts |-> {"browser", "page"}, budget |-> Budget([emits |-> 4])]

Faults == [parts |-> {"browser", "page"}, budget |-> Budget([emits |-> 2, breaks |-> 1, loadfails |-> 1, restarts |-> 1])]

Signals == [parts |-> {"signal"}, budget |-> Budget([settings |-> 2, sound |-> 2, stalls |-> 1, dev |-> 1, stop |-> 1])]

Levels == [parts |-> {"signal"}, budget |-> Budget([sound |-> 2, stalls |-> 2, levels |-> 1])]

Sensors == [parts |-> {"host"}, budget |-> Budget([settings |-> 2, sensor |-> 4, stop |-> 1])]

Counters == [parts |-> {"host"}, budget |-> Budget([settings |-> 2, losses |-> 3, dev |-> 1, stop |-> 1])]

Updates == [parts |-> {"updates"}, budget |-> Budget([settings |-> 2, fetch |-> 2, site |-> 1, stop |-> 1])]

Sites == [parts |-> {"updates"}, budget |-> Budget([fetch |-> 2, site |-> 3])]

Offers == [parts |-> {"updates"}, budget |-> Budget([settings |-> 2, fetch |-> 1, site |-> 2])]

Clients == [parts |-> {"clients"}, budget |-> Budget([connects |-> 6, disconnects |-> 1])]

RunLocks == [parts |-> {"lock"}, budget |-> Budget([writes |-> 3, stop |-> 1])]

Certs == [parts |-> {"certs"}, budget |-> Budget([rotations |-> 2, fails |-> 1, crashes |-> 2, faults |-> 1])]

Moves == [parts |-> {"certs"}, budget |-> Budget([apis |-> 1, rotations |-> 2, crashes |-> 1, faults |-> 1, moves |-> 1])]

Rivals == [parts |-> {"provisioning"}, budget |-> Budget([provisions |-> 1, patches |-> 1, leaves |-> 1, fails |-> 1])]

Adds == [parts |-> {"provisioning"}, budget |-> Budget([provisions |-> 2])]

Removes == [parts |-> {"provisioning"}, budget |-> Budget([provisions |-> 1, deletes |-> 2])]

Plugs == [parts |-> {"provisioning"}, budget |-> Budget([provisions |-> 1, plugs |-> 2])]

Name(b, n) == [base |-> b, n |-> n]

Cap(channels, rate) == [format |-> "s16", channels |-> channels, rate |-> rate]

\* Two units of one make, with one serial between them, and an ultrasonic one
\* without a serial and with a long name.
Microphones ==
    [left |-> [serial |-> "s", label |-> "mic", caps |-> {Cap(1, 48000), Cap(1, 96000), Cap(2, 48000)}],
     right |-> [serial |-> "s", label |-> "mic", caps |-> {Cap(1, 48000), Cap(1, 96000), Cap(2, 48000)}],
     bat |-> [serial |-> None, label |-> "ultrasonic recorder", caps |-> {Cap(2, 96000), [Cap(2, 192000) EXCEPT !.format = "s32"]}]]

Plugged(port, card) == [port |-> port, card |-> card]

Flat(name, id, rate) == [name |-> name, id |-> id, rate |-> rate, streams |-> None, flat |-> [path |-> None, mode |-> None, channels |-> {}]]

Stream(path) == [path |-> path, mode |-> "opus", channels |-> {1, 2}]

TwoStreams(name, id) == [Flat(name, id, 48000) EXCEPT !.streams = <<Stream("/a"), Stream("/b")>>]

Card(n) == [form |-> "card", at |-> n]

SerialId == [form |-> "serial", at |-> "s"]

\* By card index, as a client with an old list writes it; a device with two
\* streams, and the flat form of it under its own and under another name.
Patches ==
    {<<Flat(Name("mic", 1), Card("0"), 48000)>>, <<Flat(Name("mic", 2), SerialId, 48000), Flat(Name("bat", 1), Card("1"), 4000)>>,
     <<TwoStreams(Name("mic", 1), SerialId)>>, <<Flat(Name("mic", 1), SerialId, 48000)>>, <<Flat(Name("mic", 2), SerialId, 48000)>>}

Entry(name, id, path) ==
    [name |-> name, id |-> id, rate |-> 48000, streams |-> <<[path |-> path, mode |-> "pcm", channels |-> {1}]>>]

Bench(l, r, b) == [left |-> l, right |-> r, bat |-> b]

MicHosts ==
    {[plugged |-> Bench(Plugged("p1", "0"), None, Plugged("p2", "1")), saved |-> <<>>],
     [plugged |-> Bench(Plugged("p1", "0"), Plugged("p2", "1"), None), saved |-> <<Entry(Name("mic", 1), Card("1"), "/stream")>>],
     [plugged |-> Bench(Plugged("p1", "0"), None, Plugged(None, "1")), saved |-> <<Entry(Name("a very long name", 1), Card("0"), "/stream")>>]}

CardOrder == <<"0", "1", "2">>

Long == [n \in {"ultrasonic recorder", "a very long name"} |-> "mic"]

Asked ==
    {NoOverrides, [NoOverrides EXCEPT !.mode = "opus", !.channels = {1, 2}], [NoOverrides EXCEPT !.mode = "pcm", !.rate = 96000],
     [NoOverrides EXCEPT !.name = Name("a very long name", 1), !.channels = {1, 2}]}

Symmetry == Permutations(Requesters)

HostNames == {{"old"}, {"new"}}

Each == {Page, Faults, Signals, Levels, Sensors, Counters, Updates, Sites, Offers, Clients, RunLocks, Certs, Moves, Rivals, Adds, Removes, Plugs}

Word(n) == [num |-> FALSE, v |-> n]

Number(n) == [num |-> TRUE, v |-> n]

\* As in the tests of CompareVersions: 9 before 10, a number before a word, a
\* longer prerelease after its beginning, a release after its prereleases.
Current == [core |-> <<1, 10>>, pre |-> <<Number(2)>>]

Ordered ==
    <<[core |-> <<1, 9>>, pre |-> <<>>], Current, [core |-> <<1, 10>>, pre |-> <<Word(1)>>],
      [core |-> <<1, 10>>, pre |-> <<Word(1), Number(1)>>], [core |-> <<1, 10>>, pre |-> <<>>]>>

=============================================================================
