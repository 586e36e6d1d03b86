----------------------------- MODULE MCStartup -----------------------------
(* A small instance of Startup for TLC. *)
EXTENDS Startup, TLC

CONSTANTS n1, r1, d1, d2, t1, t2, t3

MCRepoOf == n1 :> r1

\* What the starts are given, one after another: nothing; a token file of its own
\* and another port; the same on the command line, over a config file and a
\* backend of another name; S3, from the second config file and the .env; the
\* token itself.
MCMain ==
  <<[NoGiven EXCEPT !.files = <<NoFile, NoFile, NoFile>>],
    [NoGiven EXCEPT !.env = "admin_token_file" :> "other.token" @@ "server_port" :> "3001"],
    [NoGiven EXCEPT !.files = <<"admin_token_file" :> "other.token" @@ "backend" :> "local">>,
                    !.env = "admin_token_file" :> "other.token",
                    !.cli = "backend" :> "fs" @@ "server_port" :> "3001"],
    [NoGiven EXCEPT !.files = <<NoFile, "backend" :> "s3" @@ "s3_bucket" :> "b", NoFile>>,
                    !.dotenv = "s3_region" :> "r" @@ "server_port" :> "3002",
                    !.env = "server_port" :> "3001"],
    [NoGiven EXCEPT !.env = "admin_token" :> "set"]>>

\* Settings that no step here depends on.  In each of the starts one of a section is
\* named on the command line and another one in the environment, and no more of it
\* there (but where a start has some of MCMain).
Others ==
  [cli |-> <<{"hf_endpoint", "ms_token", "compression", "server_host"},
             {"hf_token", "ms_proxy", "prefetch_depth"},
             {"hf_proxy", "ms_timeout"},
             {"hf_timeout", "ms_connect_timeout", "etag_validation_timeout_secs"},
             {"hf_connect_timeout", "ms_endpoint", "chunk_retries"}>>,
   env |-> <<{"hf_token", "ms_endpoint", "max_size"},
             {"hf_proxy", "ms_token", "prefetch_budget_base"},
             {"hf_timeout", "ms_proxy", "verify_sha256"},
             {"hf_connect_timeout", "ms_timeout"},
             {"hf_endpoint", "ms_connect_timeout", "chunk_retries", "server_host"}>>]

MCSetups ==
  {[MCMain[k] EXCEPT !.cli = @ @@ [s \in Others.cli[k] |-> "cli"],
                     !.env = @ @@ [s \in Others.env[k] |-> "env"]] : k \in 1 .. 5}

MCSymmetry == Permutations({d1, d2}) \cup Permutations({t1, t2, t3})
============================================================================
