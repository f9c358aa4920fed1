----------------------------- MODULE MCStartup -----------------------------
EXTENDS Startup

St(op, names) == [op |-> op, names |-> names]

\* The shapes of 0001, 0013, 0018, 0019 and 0021.
MCFiles ==
    << << St("postgres only", <<"vector">>), St("create if missing", <<"users", "users.access_token">>),
          St("create if missing", <<"users_email_idx">>) >>,
       << St("add if missing", <<"freshness", "debug_mode">>), St("postgres only", <<"check">>) >>,
       << St("add", <<"skipped_at">>), St("create", <<"idx_pending">>) >>,
       << St("drop if there", <<"users.access_token">>) >>,
       << St("create", <<"space_facts">>), St("data", <<"space_facts">>) >> >>
=============================================================================
