----------------------------- MODULE MCRowLocks -----------------------------
(* Statements for RowLocks: small sets in which every wait, cycle, skip and *)
(* refusal happens.                                                        *)
EXTENDS RowLocks, TLC

CONSTANTS r1, r2, k1, k2

AnyStmt == [kind |-> "lock", claims |-> {}, to |-> {}, frees |-> {}, rows |-> <<>>,
            mode |-> "NoKeyUpdate", policy |-> "Wait", limit |-> 2]

\* SELECT .. FOR over rows, up to `limit` of them.
LockStmt(rows, mode, policy, limit) ==
  [AnyStmt EXCEPT !.rows = rows, !.mode = mode, !.policy = policy, !.limit = limit]

InsertStmt(k) == [AnyStmt EXCEPT !.kind = "insert", !.claims = {k}]

UpsertStmt(k, to) == [InsertStmt(k) EXCEPT !.to = {to}]

UpdateStmt(rows, claims) ==
  [AnyStmt EXCEPT !.kind = "update", !.rows = rows, !.claims = claims]

DeleteStmt(rows, frees) ==
  [AnyStmt EXCEPT !.kind = "delete", !.rows = rows, !.mode = "Exclusive", !.frees = frees]

\* Writers over two rows and a key, and a reader that shares one of the rows.
WriterStmts ==
  {LockStmt(<<r1>>, "Exclusive", "Wait", 1), LockStmt(<<r1>>, "Share", "Wait", 1),
   UpdateStmt(<<r2>>, {}), InsertStmt(k1)}

\* Readers that share a row, and writers behind them.
SharedStmts ==
  {LockStmt(<<r1>>, "Share", "SkipLocked", 1), LockStmt(<<r1, r2>>, "Exclusive", "Wait", 2),
   LockStmt(<<r2, r1>>, "KeyShare", "Wait", 2),
   LockStmt(<<r2>>, "Share", "NoWait", 1), InsertStmt(k1)}

\* Two keys, taken by INSERT, UPDATE and ON CONFLICT DO UPDATE and given up by
\* DELETE, and a row.
KeyStmts ==
  {InsertStmt(k2), UpsertStmt(k1, k2), UpdateStmt(<<r1>>, {k1}), DeleteStmt(<<r1>>, {k1})}

\* Two rows, of which a retry may find the other one.
RowStmts ==
  {LockStmt(<<r1>>, "Exclusive", "Wait", 1), LockStmt(<<r2>>, "Exclusive", "Wait", 1)}

\* The keys again, and a row the next attempt may not find any more.
MixedStmts ==
  {UpsertStmt(k1, k2), InsertStmt(k2), UpdateStmt(<<r1>>, {}), UpdateStmt(<<>>, {})}

\* Sessions are interchangeable (used by the safety runs only).
SessionSymmetry == Permutations(Sessions)
=============================================================================
