------------------------------ MODULE MCRecorder ------------------------------
EXTENDS Recorder

Plain == [topics |-> {"a", "b"}, record_all |-> FALSE, regex |-> FALSE, exclude |-> {},
          limit |-> 0, split |-> FALSE, max_size |-> 0, max_duration |-> 0,
          buffer_size |-> 2, snapshot |-> FALSE, append_date |-> TRUE]

(* One command line for each thing that may end or cut a recording.        *)
MCOptions ==
  {Plain,
   [Plain EXCEPT !.limit = 1],
   [Plain EXCEPT !.topics = {"a"}, !.regex = TRUE, !.limit = 2],
   [Plain EXCEPT !.topics = {}, !.exclude = {"b"}],
   [Plain EXCEPT !.split = TRUE, !.max_size = 1, !.append_date = FALSE],
   [Plain EXCEPT !.max_size = 1, !.topics = {"a"}],
   [Plain EXCEPT !.split = TRUE, !.max_duration = 1, !.topics = {"a"}],
   [Plain EXCEPT !.max_duration = 1, !.topics = {"a"}],
   [Plain EXCEPT !.snapshot = TRUE, !.topics = {"a"}]}
=============================================================================
