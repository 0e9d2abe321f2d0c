--------------------------- MODULE MCServerProcess ---------------------------
(* Each output alone under the server, whose last report may be cut; under the
   standalone program files that change, and both outputs with the single file. *)
EXTENDS ServerProcess
MCStarts ==
  {[mode |-> {"file", "redis"}, period |-> 0, program |-> "standalone"],
   [mode |-> {"file"}, period |-> 1, program |-> "standalone"],
   [mode |-> {"file"}, period |-> 1, program |-> "server"],
   [mode |-> {"redis"}, period |-> 0, program |-> "server"]}
=============================================================================
