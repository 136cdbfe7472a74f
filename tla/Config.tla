------------------------------- MODULE Config -------------------------------
(***************************************************************************)
(* The configuration file: what Parse (config/config.go) accepts, in which *)
(* order it checks, and what it leaves on the disk when a check fails; and *)
(* what the command "new" writes (cmd.go).                                 *)
(*                                                                         *)
(* A file is a record of what Parse tells apart in each field.  The disk   *)
(* is what stands at the data directory, at "shards" in it and at the log  *)
(* directory.                                                              *)
(***************************************************************************)
EXTENDS Naturals, Sequences, FiniteSetsExt

CONSTANT None     \* no seed_list, no configuration file

\* Kinds of seed: "good" (address, port and hexadecimal id), "empty" (nothing
\* left of it), "bad" (anything else).
Config ==
  [local_addr : {"good", "bad"},
   private_key : {"good", "offCurve", "bad"},
   data_dir : {"given", "empty"},
   protocol : {"given", "empty"},
   seed_list : {None} \cup Seq({"good", "empty", "bad"})]

Disk ==
  {disk \in [data : {"absent", "file", "dir", "unreadable"},
             shards : {"absent", "file", "dir"},
             log : {"absent", "file", "dir"}] :
     disk.data # "dir" => disk.shards = "absent"}

Seeds(c) == IF c.seed_list = None THEN <<>> ELSE c.seed_list

\* Seed by seed: each is trimmed and its last byte looked at, which an empty
\* one has not.
SeedCheck(seeds) ==
  [ok    |-> \A i \in 1..Len(seeds) : seeds[i] = "good",
   error |-> IF \E i \in 1..Len(seeds) :
                  seeds[i] = "empty" /\ \A j \in 1..(i - 1) : seeds[j] = "good"
             THEN "panic" ELSE "seed_list"]

\* The checks of Parse in their order.  os.Stat of the data directory that
\* fails in another way than "not exist" leaves no FileInfo to ask.  Anything
\* at all that is called "shards" will do, and so at the log directory.  The
\* private key must be 64 hexadecimal digits: that its public key is 32 bytes
\* long is SetKey's to find out.
Checks(c, disk, made) ==
  << [ok |-> c.local_addr = "good",                        error |-> "local_addr"],
     [ok |-> c.private_key # "bad",                        error |-> "private_key"],
     [ok |-> c.data_dir = "given",                         error |-> "data_dir"],
     [ok |-> disk.data # "absent",                         error |-> "data_dir"],
     [ok |-> disk.data # "unreadable",                     error |-> "panic"],
     [ok |-> disk.data = "dir",                            error |-> "data_dir"],
     [ok |-> disk.shards # "absent" \/ "shards" \in made,  error |-> "shards"],
     [ok |-> disk.log # "absent" \/ "log" \in made,        error |-> "log_dir"],
     [ok |-> c.protocol = "given",                         error |-> "protocol"],
     [ok |-> c.seed_list # None,                           error |-> "seed_list"],
     SeedCheck(Seeds(c)) >>

\* The first n checks pass.
Pass(checks, n) == n <= Len(checks) /\ \A i \in 1..n : checks[i].ok

\* The first failing check is the error.  The directories made before it stay;
\* shards is made when n checks have passed.
Outcome(checks, disk, n) ==
  LET ok == Pass(checks, Len(checks))
      made(checked, at) == IF Pass(checks, checked) /\ at = "absent" THEN "dir" ELSE at
  IN [ok    |-> ok,
      error |-> IF ok THEN "none" ELSE checks[Min({i \in 1..Len(checks) : ~checks[i].ok})].error,
      disk  |-> [data |-> disk.data, shards |-> made(n, disk.shards), log |-> made(8, disk.log)]]

\* Mistake: os.IsExist for os.IsNotExist, which is never true, so nothing is made.
ParseMakesNothing(c, disk, made) == Outcome(Checks(c, disk, made), disk, 100)

\* Mistake: shards is made whether it is there or not, and os.Mkdir fails.
ParseMakesAlways(c, disk, made) ==
  Outcome([Checks(c, disk, made) EXCEPT ![7].ok = disk.shards = "absent" /\ "shards" \in made],
          disk, 7)

Parse(c, disk, made) == Outcome(Checks(c, disk, made), disk, 7)

\* What "new" writes: a template with a key, good or not, and no protocol.
NewConfigs ==
  [local_addr : {"bad"}, private_key : {"good", "offCurve"}, data_dir : {"given"},
   protocol : {"empty"}, seed_list : {<<"bad">>}]
=============================================================================
