---- MODULE MCDeviceLifecycle ----
(* Instances of DeviceLifecycle for TLC. *)
EXTENDS DeviceLifecycle

Entry(id, cap, str) == [id |-> id, cap |-> cap, str |-> str, on |-> TRUE]

\* Two entries that may resolve to one card; the second may be a card index.
OrderTwo == <<"mic", "spare">>
EntriesTwo == [mic |-> {Entry("usb", 1, 1), Entry("usb", 1, 2)}, spare |-> {Entry("card", 1, 1)}]
AnswersTwo == [usb |-> {"hw:1", "not-connected"}, card |-> {"hw:1"}, port |-> {"hw:1"}]

BackoffTwo == <<1, 2>>
====
