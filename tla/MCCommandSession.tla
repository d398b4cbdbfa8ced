-------------------------- MODULE MCCommandSession --------------------------
(* An instance of CommandSession small enough for TLC. *)
EXTENDS CommandSession

MCCommandLists ==
  { <<"set", "blank", "show">>,
    <<"conf", "set", "write", "set", "end">>,
    <<"conf", "set", "exit", "set", "write">>,
    <<"conf", "blank", "end", "exit">> }

=============================================================================
