---------------------------- MODULE LedgerArchive ----------------------------
(***************************************************************************)
(* Archiving the honey ledger, a month at a time: the functions of         *)
(* 20260906000029_ledger_archival.sql and the pass a regional server runs  *)
(* (hive-server/src/ledger_archive.rs).                                    *)
(*                                                                         *)
(* A pass asks for the oldest month to archive, exports its rows, stores   *)
(* them encrypted and asks the hub to apply: four steps between which it   *)
(* may crash, lose an answer, or overlap with the pass of another server.  *)
(* An instant is a number: month m starts at 2 * m and 2 * m + 1 is some   *)
(* time within it.                                                         *)
(***************************************************************************)
EXTENDS Integers, FiniteSets, FiniteSetsExt

CONSTANTS
    Server,        \* the servers operated by HJM
    Member, Fund, Treasury,  \* a wallet, a project fund, the account honey comes from
    Source,        \* the buckets of D71
    Last,          \* bound: the last instant
    MaxTxns,       \* bound: transactions
    Keep           \* whole months that stay hot: the code keeps 90 days

LedgerAssumption ==
    /\ Last \in Nat /\ MaxTxns \in Nat /\ Keep \in Nat \ {0}
    /\ IsFiniteSet(Server) /\ IsFiniteSet(Source)
    /\ Member # Fund /\ Member # Treasury /\ Fund # Treasury

Account == {Member, Fund, Treasury}
MonthOf(t) == t \div 2
StartOf(m) == 2 * m
EndOf(m) == 2 * (m + 1)

VARIABLES
    now,
    hot,           \* hive.ledger_entries: [txn, account, source, amount, at]
    checkpoints,   \* hive.ledger_checkpoints: [account, asof, balance]
    log,           \* hive.ledger_archive_log: [month, rows, by]: the artifact's rows
                   \* and the server that made it
    posted,        \* transactions so far (txn_id)
    pass,          \* what a server's run_one holds: the month and the rows it exported
    stored,        \* the artifacts a server put into its store, by the rows in them
    history        \* every entry ever posted

vars == <<now, hot, checkpoints, log, posted, pass, stored, history>>
Idle == [step |-> "idle", month |-> 0, rows |-> {}]

Sum(E) == MapThenSumSet(LAMBDA e : e.amount, E)
OfMonth(E, m) == {e \in E : StartOf(m) <= e.at /\ e.at < EndOf(m)}

TypeOK ==
    /\ now \in 0 .. Last /\ posted \in 0 .. MaxTxns
    /\ hot \subseteq history
    /\ \A e \in history : e.account \in Account /\ e.source \in Source /\ e.at \in 0 .. now
    /\ \A c \in checkpoints : c.account \in Account /\ c.balance \in Int /\ c.asof \in 0 .. now
    /\ \A l \in log : l.rows \subseteq history
    /\ \A s \in Server : pass[s].step \in {"idle", "exported", "stored"} /\ pass[s].rows \subseteq history

Init ==
    /\ now = 0 /\ hot = {} /\ checkpoints = {} /\ log = {} /\ posted = 0 /\ history = {}
    /\ pass = [s \in Server |-> Idle] /\ stored = [s \in Server |-> {}]

\* account_balance_asof: the last checkpoint up to t and the hot entries after it
AccountBalanceAsOf(a, t) ==
    LET C == {c \in checkpoints : c.account = a /\ c.asof <= t}
        last == CHOOSE c \in C : \A d \in C : d.asof <= c.asof
        H == {e \in hot : e.account = a /\ e.at <= t}
    IN  IF C = {} THEN Sum(H) ELSE last.balance + Sum({e \in H : e.at > last.asof})

AccountBalance(a) == AccountBalanceAsOf(a, now)

\* account_sources: what is left of each bucket, from the entries that are hot
AccountSources(a, s) == Sum({e \in hot : e.account = a /\ e.source = s})

\* post_txn: both sides of a transaction carry the time it started at
PostTxn(from, to, s) ==
    LET E == {[txn |-> posted, account |-> from, source |-> s, amount |-> -1, at |-> now],
              [txn |-> posted, account |-> to, source |-> s, amount |-> 1, at |-> now]} IN
    /\ posted < MaxTxns /\ posted' = posted + 1
    /\ hot' = hot \cup E /\ history' = history \cup E
    /\ UNCHANGED <<now, checkpoints, log, pass, stored>>

\* honey granted to a member, or bought
Grant(s) == PostTxn(Treasury, Member, s)

\* fund_project: the balance must cover the amount, and split_debit finds it in a bucket
FundProject(s) ==
    /\ AccountBalance(Member) >= 1
    /\ AccountSources(Member, s) >= 1
    /\ PostTxn(Member, Fund, s)

----------------------------------------------------------------------------
(* The pass of a server.                                                   *)

Horizon == StartOf(MonthOf(now) - Keep)
Archived == {l.month : l \in log}

\* ledger_archive_pending: months with old rows that are not in the log
Ready == {MonthOf(e.at) : e \in {h \in hot : h.at < Horizon}} \ Archived

\* run_one's first two calls; the export refuses a month that is not old enough
Export(s) ==
    /\ pass[s].step = "idle" /\ Ready # {}
    /\ LET m == Min(Ready) IN
          /\ EndOf(m) <= Horizon
          /\ pass' = [pass EXCEPT ![s] = [step |-> "exported", month |-> m, rows |-> OfMonth(hot, m)]]
    /\ UNCHANGED <<now, hot, checkpoints, log, posted, stored, history>>

StorePut(s) ==
    /\ pass[s].step = "exported"
    /\ stored' = [stored EXCEPT ![s] = @ \cup {pass[s].rows}]
    /\ pass' = [pass EXCEPT ![s].step = "stored"]
    /\ UNCHANGED <<now, hot, checkpoints, log, posted, history>>

ApplyBeforeStore(s) ==
    LET m == pass[s].month
        gone == OfMonth(hot, m)
        touched == {e.account : e \in gone}
    IN
    /\ pass[s].step = "exported"
    /\ IF m \in Archived \/ Cardinality(gone) # Cardinality(pass[s].rows)
          THEN UNCHANGED <<hot, checkpoints, log>>
          ELSE /\ hot' = hot \ gone
               /\ checkpoints' = {c \in checkpoints : ~ (c.account \in touched /\ c.asof = EndOf(m))}
                     \cup {[account |-> a, asof |-> EndOf(m), balance |-> AccountBalanceAsOf(a, EndOf(m))]
                              : a \in touched}
               /\ log' = log \cup {[month |-> m, rows |-> pass[s].rows, by |-> s]}
    /\ pass' = [pass EXCEPT ![s] = Idle]
    /\ UNCHANGED <<now, posted, stored, history>>

\* one transaction: checkpoint the accounts the month touched, delete its rows, log it;
\* it is undone when the month is logged already or the count differs from the export's
Apply(s) ==
    LET m == pass[s].month
        gone == OfMonth(hot, m)
        touched == {e.account : e \in gone}
    IN
    /\ pass[s].step = "stored"
    /\ IF m \in Archived \/ Cardinality(gone) # Cardinality(pass[s].rows)
          THEN UNCHANGED <<hot, checkpoints, log>>
          ELSE /\ hot' = hot \ gone
               /\ checkpoints' = {c \in checkpoints : ~ (c.account \in touched /\ c.asof = EndOf(m))}
                     \cup {[account |-> a, asof |-> EndOf(m), balance |-> AccountBalanceAsOf(a, EndOf(m))]
                              : a \in touched}
               /\ log' = log \cup {[month |-> m, rows |-> pass[s].rows, by |-> s]}
    /\ pass' = [pass EXCEPT ![s] = Idle]
    /\ UNCHANGED <<now, posted, stored, history>>

\* a crash, or an error of one of the calls, ends the pass; what is stored stays
Abandon(s) ==
    /\ pass[s].step # "idle"
    /\ pass' = [pass EXCEPT ![s] = Idle]
    /\ UNCHANGED <<now, hot, checkpoints, log, posted, stored, history>>

Tick ==
    /\ now < Last /\ now' = now + 1
    /\ UNCHANGED <<hot, checkpoints, log, posted, pass, stored, history>>

Next ==
    \/ \E x \in Source : Grant(x) \/ FundProject(x)
    \/ \E s \in Server : Export(s) \/ StorePut(s) \/ Apply(s) \/ Abandon(s)
    \/ Tick

Spec == Init /\ [][Next]_vars

----------------------------------------------------------------------------
(***************************************************************************)
(* Properties.                                                             *)
(***************************************************************************)

\* Archiving moves no honey: at every instant after the archived months an account's
\* balance is the sum of all entries ever posted to it, deleted ones included.
BalancesSurvive ==
    \A a \in Account : \A t \in 0 .. now :
        (\A l \in log : EndOf(l.month) <= t) =>
            AccountBalanceAsOf(a, t) = Sum({e \in history : e.account = a /\ e.at <= t})

\* What was deleted from the ledger is in exactly one archived month, and that
\* artifact lies in the store of a server.
DeletedIsArchived ==
    \A e \in history \ hot :
        /\ \E l \in log : e \in l.rows /\ \E s \in Server : l.rows \in stored[s]
        /\ \A k, l \in log : e \in k.rows \cap l.rows => k = l

\* No transaction is cut in two by a month's end: the hot entries of every transaction
\* still cancel out, as ledger_integrity demands every night.
WholeTxns == \A e \in hot : Sum({h \in hot : h.txn = e.txn}) = 0

\* (Claimed by the migration that introduced the buckets.)  An account's buckets add up
\* to its balance, so that what account_balance admits split_debit can find.
SourcesAddUp ==
    \A a \in Account : MapThenSumSet(LAMBDA s : AccountSources(a, s), Source) = AccountBalance(a)

\* Two servers that archive the same months lose nothing and count nothing twice.
ArchiveSafe == BalancesSurvive /\ DeletedIsArchived /\ WholeTxns
=============================================================================
