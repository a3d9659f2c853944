----------------------------- MODULE ToolProofs ------------------------------
(***************************************************************************)
(* Proofs about Tools, for any number of approvals, of resumers of each,   *)
(* any deadlines and any expiry; and any number of keys, of calls with     *)
(* each, any leases, deadlines and lifetimes of results, and any number of *)
(* crashes.                                                                *)
(***************************************************************************)
EXTENDS Tools, TLAPS

-----------------------------------------------------------------------------
(* Approvals.  The argument is that of a token.  A resumer holds the token *)
(* from its reserve() to its release(), and for good once it has passed;   *)
(* the store offers the binding (store = "issued") only while nobody holds *)
(* it.  An expired binding is purged, but is never offered again.          *)

\* A resumer that may still pass, or give the approval back, or has passed.
Holder(i, r) == ~A(i)!Away(r) \/ spent[r]

\* A holder whose commit() is behind it, but for the one that is leaving.
Past(r) ==
    \/ pc[r] \in {"committed", "admitted", "after", "rollback", "issuing"}
    \/ late[r] = "rollback"
    \/ spent[r]

\* Where an issuance has not begun.
Before ==
    {"idle", "state", "admission", "reserve", "reserved", "commit", "committed",
     "withdraw", "fail", "admitted", "after"}

\* How far one resumer's own variables agree with each other.
ResumerInv(r) ==
    /\ pc[r] \in Before =>
          late[r] = "none" /\ tries[r] = 3 /\ next[r] = "absent" /\ ~spent[r]
    /\ pc[r] = "after" => kind[r] = "replay"
    /\ pc[r] = "rollback" => late[r] # "rollback" /\ ~spent[r]
    /\ pc[r] = "issuing" => late[r] \in {"issue", "issued"} /\ ~spent[r]
    /\ pc[r] \in {"admitted", "after", "issuing"} => reported[r]
    /\ late[r] = "rollback" => pc[r] = "done" /\ ~spent[r] /\ next[r] = "absent"
    /\ late[r] = "issue" => tries[r] = 3 /\ next[r] = "absent" /\ ~spent[r]
    /\ late[r] = "issued" => tries[r] = 3 /\ next[r] = "issued" /\ pc[r] = "issuing"
    /\ late[r] = "revoke" =>
          tries[r] >= 1 /\ next[r] = "issued" /\ pc[r] \in {"rollback", "done"} /\ ~spent[r]
    /\ spent[r] =>
          /\ pc[r] = "done" /\ late[r] = "none" /\ reported[r]
          /\ kind[r] = "regate" => next[r] = "issued"

ApprovalInv(i) == A(i)!TypeOK /\ \A r \in Resumers[i] : ResumerInv(r)

\* The token, and what the store knows of it.
TokenInv(i) ==
    /\ \A r, s \in Resumers[i] : Holder(i, r) /\ Holder(i, s) => r = s
    /\ store = "issued" => \A r \in Resumers[i] : ~Holder(i, r)
    /\ store = "absent" => A(i)!Expired
    /\ store = "reserved" => \E r \in Resumers[i] : Holder(i, r)
    /\ store = "consumed" => \E r \in Resumers[i] : Holder(i, r)
    /\ store = "reserved" => \A r \in Resumers[i] : ~Past(r)
    /\ store = "revoked" => revoked
    /\ revoked => /\ store \in {"revoked", "absent"}
                  /\ \A r \in Resumers[i] :
                        pc[r] \notin {"committed", "admitted", "after", "issuing"}

-----------------------------------------------------------------------------
(* Types.                                                                  *)

\* An approval starts with the invariant of its protocol.
LEMMA ApprovalInit ==
    ASSUME NEW i \in Approvals, A(i)!ApprovalAssumption, A(i)!Init PROVE ApprovalInv(i)
<1>1. /\ aborted \in [Resumers[i] -> BOOLEAN] /\ stopped \in [Resumers[i] -> BOOLEAN]
      /\ reported \in [Resumers[i] -> BOOLEAN] /\ spent \in [Resumers[i] -> BOOLEAN]
      /\ revoked \in BOOLEAN
  BY Zenon DEF A!Init
<1>2. A(i)!TypeOK BY <1>1 DEF A!ApprovalAssumption, A!Init, A!TypeOK, A!States, A!Points, A!Kinds
<1>3. ASSUME NEW r \in Resumers[i] PROVE ResumerInv(r) BY DEF A!Init, ResumerInv, Before
<1>4. QED BY <1>2, <1>3 DEF ApprovalInv

\* A step of an approval keeps the invariant of its protocol.
LEMMA ApprovalNext ==
    ASSUME NEW i \in Approvals, A(i)!ApprovalAssumption, ApprovalInv(i),
           A(i)!Next \/ UNCHANGED A(i)!vars
    PROVE ApprovalInv(i)'
<1> USE DEF ApprovalInv, A!TypeOK, ResumerInv, A!States, A!Points, A!Kinds, Before, A!Goto,
            A!resuming,
            A!signals, A!hosts, A!ApprovalAssumption
<1>1. ASSUME NEW r \in Resumers[i], A(i)!ResumeStep(r) PROVE ApprovalInv(i)'
  <2>1. CASE A(i)!Resume(r) BY <2>1 DEF A!Resume
  <2>2. CASE A(i)!StateRead(r) BY <2>2 DEF A!StateRead, A!Purged
  <2>3. CASE A(i)!Refuse(r) BY <2>3 DEF A!Refuse
  <2>4. ASSUME NEW k \in A(i)!Kinds \ {"unknown"}, A(i)!Admit(r, k)
       PROVE ApprovalInv(i)' BY <2>4 DEF A!Admit
  <2>5. CASE A(i)!Reserve(r) BY <2>5 DEF A!Reserve, A!Purged
  <2>6. CASE A(i)!Reserved(r) BY <2>6 DEF A!Reserved
  <2>7. CASE A(i)!Commit(r) BY <2>7 DEF A!Commit
  <2>8. CASE A(i)!Committed(r) BY <2>8 DEF A!Committed
  <2>9. CASE A(i)!Withdraw(r) BY <2>9 DEF A!Withdraw, A!Released
  <2>10. CASE A(i)!Start(r)
    <3>1. CASE stopped[r] BY <2>10, <3>1 DEF A!Start
    <3>2. CASE ~stopped[r]
      <4>1. /\ pc' = [pc EXCEPT ![r] = "done"] /\ spent' = [spent EXCEPT ![r] = TRUE]
            /\ UNCHANGED <<now, store, next, kind, A(i)!signals, late, reported, tries, A(i)!hosts>>
            /\ pc[r] = "admitted" /\ kind[r] = "run"
        BY <2>10, <3>2 DEF A!Start
      <4>2. spent' \in [Resumers[i] -> BOOLEAN] BY <4>1
      <4>3. QED BY <4>1, <4>2
    <3>3. QED BY <3>1, <3>2
  <2>11. CASE A(i)!Replay(r) BY <2>11 DEF A!Replay
  <2>12. ASSUME NEW ok \in BOOLEAN, A(i)!PolicyAfter(r, ok)
       PROVE ApprovalInv(i)' BY <2>12 DEF A!PolicyAfter
  <2>13. CASE A(i)!Exchange(r) BY <2>13 DEF A!Exchange
  <2>14. CASE A(i)!Rollback(r) BY <2>14 DEF A!Rollback, A!Released
  <2>15. CASE A(i)!Issue(r) BY <2>15 DEF A!Issue
  <2>16. CASE A(i)!IssueAnswered(r) BY <2>16 DEF A!IssueAnswered
  <2>17. CASE A(i)!IssueInterrupted(r) BY <2>17 DEF A!IssueInterrupted
  <2>18. ASSUME NEW fails \in BOOLEAN, A(i)!RevokeLate(r, fails) PROVE ApprovalInv(i)'
    BY <2>18 DEF A!RevokeLate
  <2>19. QED
    BY <1>1, <2>1, <2>2, <2>3, <2>4, <2>5, <2>6, <2>7, <2>8, <2>9, <2>10, <2>11, <2>12,
       <2>13, <2>14, <2>15, <2>16, <2>17, <2>18 DEF A!ResumeStep
<1>2. ASSUME NEW r \in Resumers[i], A(i)!Abort(r) \/ A(i)!Stop(r) PROVE ApprovalInv(i)'
  <2>1. /\ aborted' \in [Resumers[i] -> BOOLEAN] /\ stopped' \in [Resumers[i] -> BOOLEAN]
        /\ UNCHANGED <<now, store, next, A(i)!resuming, late, tries, A(i)!hosts>>
    <3>1. CASE A(i)!Abort(r)
      <4>1. /\ aborted' = [aborted EXCEPT ![r] = TRUE]
            /\ stopped' = [stopped EXCEPT ![r] = TRUE]
            /\ UNCHANGED <<now, store, next, A(i)!resuming, late, tries, A(i)!hosts>>
        BY <3>1 DEF A!Abort
      <4>2. aborted' \in [Resumers[i] -> BOOLEAN] BY <4>1
      <4>3. stopped' \in [Resumers[i] -> BOOLEAN] BY <4>1
      <4>4. QED BY <4>1, <4>2, <4>3
    <3>2. CASE A(i)!Stop(r)
      <4>1. stopped' = [stopped EXCEPT ![r] = TRUE] /\ UNCHANGED aborted
            /\ UNCHANGED <<now, store, next, A(i)!resuming, late, tries, A(i)!hosts>>
        BY <3>2 DEF A!Stop
      <4>2. stopped' \in [Resumers[i] -> BOOLEAN] BY <4>1
      <4>3. QED BY <4>1, <4>2
    <3>3. QED BY <1>2, <3>1, <3>2
  <2>2. QED BY <2>1
<1>3. CASE A(i)!Revoke BY <1>3 DEF A!Revoke, A!RevokedFrom, A!Purged
<1>4. CASE A(i)!RestoreReads BY <1>4 DEF A!RestoreReads, A!Purged
<1>5. CASE A(i)!RestoreIssues BY <1>5 DEF A!RestoreIssues, A!Purged
<1>6. CASE A(i)!Tick BY <1>6 DEF A!Tick
<1>7. CASE UNCHANGED A(i)!vars BY <1>7 DEF A!vars
<1>8. QED BY <1>1, <1>2, <1>3, <1>4, <1>5, <1>6, <1>7 DEF A!Next

-----------------------------------------------------------------------------
(* The token.                                                              *)

\* Nobody holds the token at the start.
LEMMA InitToken ==
    ASSUME NEW i \in Approvals, A(i)!Init PROVE TokenInv(i)
  BY DEF A!Init, TokenInv, Holder, Past, A!Away

\* A step that gives no resumer the token, takes it from none and leaves the
\* store as it is, or purges it, keeps the invariant.
LEMMA TokenKept ==
    ASSUME NEW i \in Approvals, ApprovalInv(i), TokenInv(i), store' \in {store, A(i)!Purged},
       now' = now, revoked' = revoked,
           \A s \in Resumers[i] : Holder(i, s)' = Holder(i, s) /\ (Past(s)' => Past(s)),
           \A s \in Resumers[i] :
              pc'[s] \in {"committed", "admitted", "after", "issuing"} =>
              pc[s] \in {"committed", "admitted", "after", "issuing"}
    PROVE  TokenInv(i)'
  BY DEF TokenInv, A!Purged, A!Expired

\* A holder that gives the approval back, without having passed, is no holder.
LEMMA TokenReturned ==
    ASSUME NEW i \in Approvals, ApprovalInv(i), TokenInv(i), NEW r \in Resumers[i], Holder(i, r),
       ~Holder(i, r)', store' = A(i)!Released,
           now' = now, revoked' = revoked,
           \A s \in Resumers[i] \ {r} :
              Holder(i, s)' = Holder(i, s) /\ Past(s)' = Past(s) /\ pc'[s] = pc[s],
           pc'[r] \notin {"committed", "admitted", "after", "issuing"}
    PROVE  TokenInv(i)'
  BY DEF TokenInv, A!Released, A!Expired, Past, Holder, A!Away, ApprovalInv, A!TypeOK

\* A step hands the token to at most one resumer, and only from the store.
LEMMA NextToken ==
    ASSUME NEW i \in Approvals, A(i)!ApprovalAssumption, ApprovalInv(i), TokenInv(i),
           A(i)!Next \/ UNCHANGED A(i)!vars
    PROVE TokenInv(i)'
<1> USE DEF ApprovalInv, A!TypeOK, ResumerInv, A!States, A!Points, Before, A!Goto, A!resuming,
            A!signals, A!hosts
<1>1. ASSUME NEW r \in Resumers[i], A(i)!ResumeStep(r) PROVE TokenInv(i)'
  <2>1. CASE A(i)!Resume(r) BY <2>1, TokenKept DEF A!Resume, Holder, Past, A!Away
  <2>2. CASE A(i)!StateRead(r) BY <2>2, TokenKept DEF A!StateRead, Holder, Past, A!Away
  <2>3. CASE A(i)!Refuse(r) BY <2>3, TokenKept DEF A!Refuse, Holder, Past, A!Away
  <2>4. ASSUME NEW k \in A(i)!Kinds \ {"unknown"}, A(i)!Admit(r, k) PROVE TokenInv(i)'
    BY <2>4, TokenKept DEF A!Admit, Holder, Past, A!Away
  <2>5. CASE A(i)!Reserve(r)
    <3>1. CASE A(i)!CanReserve
      BY <2>5, <3>1 DEF A!Reserve, A!CanReserve, A!Purged, Holder, Past, A!Away, TokenInv,
         A!Expired
    <3>2. CASE ~A(i)!CanReserve BY <2>5, <3>2, TokenKept DEF A!Reserve, Holder, Past, A!Away
    <3>3. QED BY <3>1, <3>2
  <2>6. CASE A(i)!Reserved(r) BY <2>6, TokenKept DEF A!Reserved, Holder, Past, A!Away
  <2>7. CASE A(i)!Commit(r)
    BY <2>7 DEF A!Commit, Holder, Past, A!Away, TokenInv, A!Expired
  <2>8. CASE A(i)!Committed(r) BY <2>8, TokenKept DEF A!Committed, Holder, Past, A!Away
  <2>9. CASE A(i)!Withdraw(r) BY <2>9, TokenReturned DEF A!Withdraw, Holder, Past, A!Away
  <2>10. CASE A(i)!Start(r) BY <2>10, TokenKept DEF A!Start, Holder, Past, A!Away
  <2>11. CASE A(i)!Replay(r) BY <2>11, TokenKept DEF A!Replay, Holder, Past, A!Away
  <2>12. ASSUME NEW ok \in BOOLEAN, A(i)!PolicyAfter(r, ok) PROVE TokenInv(i)'
    BY <2>12, TokenKept DEF A!PolicyAfter, Holder, Past, A!Away
  <2>13. CASE A(i)!Exchange(r) BY <2>13, TokenKept DEF A!Exchange, Holder, Past, A!Away
  <2>14. CASE A(i)!Rollback(r) BY <2>14, TokenReturned DEF A!Rollback, Holder, Past, A!Away
  <2>15. CASE A(i)!Issue(r) BY <2>15, TokenKept DEF A!Issue, Holder, Past, A!Away
  <2>16. CASE A(i)!IssueAnswered(r) BY <2>16, TokenKept DEF A!IssueAnswered, Holder, Past, A!Away
  <2>17. CASE A(i)!IssueInterrupted(r)
    BY <2>17, TokenKept DEF A!IssueInterrupted, Holder, Past, A!Away
  <2>18. ASSUME NEW fails \in BOOLEAN, A(i)!RevokeLate(r, fails) PROVE TokenInv(i)'
    BY <2>18, TokenKept DEF A!RevokeLate, Holder, Past, A!Away
  <2>19. QED
    BY <1>1, <2>1, <2>2, <2>3, <2>4, <2>5, <2>6, <2>7, <2>8, <2>9, <2>10, <2>11, <2>12,
       <2>13, <2>14, <2>15, <2>16, <2>17, <2>18 DEF A!ResumeStep
<1>2. ASSUME NEW r \in Resumers[i], A(i)!Abort(r) \/ A(i)!Stop(r) PROVE TokenInv(i)'
  BY <1>2, TokenKept DEF A!Abort, A!Stop, Holder, Past, A!Away
<1>3. CASE A(i)!Revoke
  BY <1>3 DEF A!Revoke, A!RevokedFrom, A!Purged, TokenInv, Holder, Past, A!Away, A!Expired
<1>4. CASE A(i)!RestoreReads BY <1>4, TokenKept DEF A!RestoreReads, Holder, Past, A!Away
<1>5. CASE A(i)!RestoreIssues
  <2>1. ~A(i)!CanIssue BY DEF A!CanIssue, A!Purged, TokenInv
  <2>2. QED BY <1>5, <2>1, TokenKept DEF A!RestoreIssues, Holder, Past, A!Away
<1>6. CASE A(i)!Tick
  BY <1>6 DEF A!Tick, TokenInv, Holder, Past, A!Away, A!Expired, A!ApprovalAssumption
<1>7. CASE UNCHANGED A(i)!vars BY <1>7 DEF A!vars, TokenInv, Holder, Past, A!Away, A!Expired
<1>8. QED BY <1>1, <1>2, <1>3, <1>4, <1>5, <1>6, <1>7 DEF A!Next

-----------------------------------------------------------------------------
(* The exchange, while revoke() does not fail three times.                 *)

\* The tries that a late revocation has left outnumber the failures to come,
\* so an approval that was issued too late is not left behind.
ExchangeInv(i) ==
    \A r \in Resumers[i] :
        /\ late[r] = "revoke" => tries[r] + faults >= 3
        /\ late[r] = "none" /\ next[r] = "issued" => spent[r]

\* While revocations fail fewer than three times, a step keeps exchanges whole.
LEMMA NextExchange ==
    ASSUME NEW i \in Approvals, A(i)!ApprovalAssumption, MaxFaults[i] < 3, ApprovalInv(i),
       ExchangeInv(i), A(i)!Next \/ UNCHANGED A(i)!vars
    PROVE  ExchangeInv(i)'
<1> USE DEF ApprovalInv, A!TypeOK, ResumerInv, Before, A!Goto, A!resuming, A!signals, A!hosts,
            A!ApprovalAssumption, ExchangeInv
<1>1. ASSUME NEW r \in Resumers[i], A(i)!ResumeStep(r) PROVE ExchangeInv(i)'
  <2>1. CASE \/ A(i)!Resume(r) \/ A(i)!StateRead(r) \/ A(i)!Refuse(r) \/ A(i)!Reserve(r)
                \/ A(i)!Reserved(r)
             \/ A(i)!Commit(r) \/ A(i)!Committed(r) \/ A(i)!Withdraw(r) \/ A(i)!Replay(r)
             \/ \E k \in A(i)!Kinds \ {"unknown"} : A(i)!Admit(r, k)
    <3>1. UNCHANGED <<late, next, spent, tries, faults>>
      BY <2>1 DEF A!Resume, A!StateRead, A!Refuse, A!Reserve, A!Reserved, A!Commit, A!Committed,
         A!Withdraw,
                  A!Replay, A!Admit
    <3>2. QED BY <3>1
  <2>2. CASE A(i)!Start(r) BY <2>2 DEF A!Start
  <2>3. ASSUME NEW ok \in BOOLEAN, A(i)!PolicyAfter(r, ok) PROVE ExchangeInv(i)'
    BY <2>3 DEF A!PolicyAfter
  <2>4. CASE A(i)!Exchange(r) BY <2>4 DEF A!Exchange
  <2>5. CASE A(i)!Rollback(r) BY <2>5 DEF A!Rollback
  <2>6. CASE A(i)!Issue(r) BY <2>6 DEF A!Issue
  <2>7. CASE A(i)!IssueAnswered(r) BY <2>7 DEF A!IssueAnswered
  <2>8. CASE A(i)!IssueInterrupted(r) BY <2>8 DEF A!IssueInterrupted
  <2>9. ASSUME NEW fails \in BOOLEAN, A(i)!RevokeLate(r, fails) PROVE ExchangeInv(i)'
    BY <2>9 DEF A!RevokeLate
  <2>10. QED
    BY <1>1, <2>1, <2>2, <2>3, <2>4, <2>5, <2>6, <2>7, <2>8, <2>9 DEF A!ResumeStep
<1>2. CASE \/ \E r \in Resumers[i] : A(i)!Abort(r) \/ A(i)!Stop(r)
           \/ A(i)!Revoke \/ A(i)!RestoreReads \/ A(i)!RestoreIssues \/ A(i)!Tick
              \/ UNCHANGED A(i)!vars
  <2>1. UNCHANGED <<late, next, spent, tries, faults>>
    BY <1>2 DEF A!Abort, A!Stop, A!Revoke, A!RestoreReads, A!RestoreIssues, A!Tick, A!vars
  <2>2. QED BY <2>1
<1>3. QED BY <1>1, <1>2 DEF A!Next

-----------------------------------------------------------------------------
(* Keys.                                                                   *)

\* The marker in the store is that of c.
Mine(c) == entry.status = "started" /\ entry.attempt = c

\* The key is c's: its marker, or its result.
Owns(i, c) == entry # K(i)!None /\ entry.attempt = c

StartedEntries(i) ==
    [status : {"started"}, attempt : Calls[i], lease : 0 .. MaxNow[i] + Lease[i],
     end : 0 .. MaxNow[i] + MaxDuration[i]]
CompletedEntries(i) ==
    [status : {"completed"}, attempt : Calls[i], expires : 0 .. MaxNow[i] + TTL[i]]

\* How far one call's own variables agree with each other: the operation it has
\* under way while it waits, and the times it has measured.
CallInv(i, c) ==
    /\ pc[c] \in {"idle", "read", "claimed", "policy", "running", "dead"} => op[c] = "none"
    /\ pc[c] = "purging" => op[c] = "purge"
    /\ pc[c] = "claiming" => op[c] = "claim"
    /\ pc[c] = "replacing" => op[c] = "replace"
    /\ pc[c] = "renewing" => op[c] = "renew"
    /\ pc[c] = "completing" => op[c] = "complete"
    /\ op[c] \in {"claim", "replace"} => deadline[c] >= MaxDuration[i]
    /\ op[c] = "replace" => seen[c].status = "started"
    /\ op[c] = "renew" => asked[c] < deadline[c]
    /\ pc[c] \notin {"done", "dead"} => answer[c] = K(i)!Silent
    /\ answer[c].kind \in {"interrupted", "timeout"} => op[c] # "complete"

KeyInv(i) == K(i)!TypeOK /\ \A c \in Calls[i] : CallInv(i, c)

-----------------------------------------------------------------------------
(* Types.                                                                  *)

\* What each status of a marker says of its other fields.
LEMMA EntryTypes ==
    ASSUME NEW i \in Keys
    PROVE  /\ K(i)!Entries = {K(i)!None} \cup StartedEntries(i) \cup CompletedEntries(i)
           /\ \A e \in K(i)!Entries :
                 /\ e.status \in {"none", "started", "completed"}
                 /\ e.status = "none" <=> e = K(i)!None
                 /\ e.status = "started" <=> e \in StartedEntries(i)
                 /\ e.status = "completed" <=> e \in CompletedEntries(i)
  BY DEF K!Entries, StartedEntries, CompletedEntries, K!None

\* The fields of an entry that is present.
LEMMA EntryFields ==
    ASSUME NEW i \in Keys, NEW e \in K(i)!Entries, e.status \in {"started", "completed"}
    PROVE  e.attempt \in Calls[i]
  BY EntryTypes DEF StartedEntries, CompletedEntries

\* present() shows an entry, or nothing.
LEMMA PresentType ==
    ASSUME NEW i \in Keys, K(i)!TypeOK
    PROVE  /\ K(i)!Present \in K(i)!Entries
           /\ K(i)!Present \in {K(i)!None, entry}
           /\ K(i)!Present.status = "started" => K(i)!Present = entry
           /\ entry.status = "started" => K(i)!Present = entry
  BY EntryTypes DEF K!TypeOK, K!Present, K!isExpired, K!None

\* The marker that a claim writes.
LEMMA StartedType ==
    ASSUME NEW i \in Keys, K(i)!IdempotencyAssumption, K(i)!TypeOK, NEW c \in Calls[i],
       deadline[c] >= MaxDuration[i]
    PROVE  /\ K(i)!StartedExecution(c) \in StartedEntries(i)
           /\ K(i)!StartedExecution(c).lease <= K(i)!StartedExecution(c).end
           /\ K(i)!StartedExecution(c).end = deadline[c]
           /\ K(i)!StartedExecution(c).attempt = c
           /\ K(i)!StartedExecution(c).status = "started"
  BY DEF K!IdempotencyAssumption, K!TypeOK, K!StartedExecution, K!Started, K!startedAt, K!Least,
     StartedEntries

\* The marker that a renewal writes.
LEMMA RenewedType ==
    ASSUME NEW i \in Keys, K(i)!IdempotencyAssumption, K(i)!TypeOK,
       K(i)!Present.status = "started", NEW t \in 0 .. MaxNow[i]
    PROVE  /\ K(i)!Renewed(t) \in StartedEntries(i)
           /\ K(i)!Renewed(t).lease <= K(i)!Renewed(t).end
           /\ K(i)!Renewed(t).end = entry.end
           /\ K(i)!Renewed(t).attempt = entry.attempt
           /\ K(i)!Renewed(t).status = "started"
<1>1. entry \in StartedEntries(i) /\ K(i)!Present = entry BY EntryTypes, PresentType DEF K!TypeOK
<1>2. QED BY <1>1 DEF K!IdempotencyAssumption, K!Renewed, K!Least, StartedEntries

\* The entry that records a result.
LEMMA CompletedType ==
    ASSUME NEW i \in Keys, K(i)!IdempotencyAssumption, K(i)!TypeOK, NEW c \in Calls[i]
    PROVE  /\ K(i)!Completed(c, now + TTL[i]) \in CompletedEntries(i)
           /\ now + TTL[i] \in 0 .. MaxNow[i] + TTL[i]
  BY DEF K!IdempotencyAssumption, K!TypeOK, K!Completed, CompletedEntries

\* What a call may say.
LEMMA AnswerTypes ==
    ASSUME NEW i \in Keys
    PROVE  /\ \A k \in {"none", "unknown", "refused", "interrupted", "timeout", "error"} :
                 K(i)!Says(k) \in K(i)!Answers /\ K(i)!Says(k).kind = k
           /\ \A k \in {"fresh", "deduped"}, c \in Calls[i] :
                 K(i)!Result(c, k) \in K(i)!Answers /\ K(i)!Result(c, k).kind = k
           /\ K(i)!Silent \in K(i)!Answers /\ K(i)!Silent.kind = "none"
  BY DEF K!Answers, K!Says, K!Result, K!Silent

\* A key starts with the invariant of its entry and of its calls.
LEMMA KeyInit ==
    ASSUME NEW i \in Keys, K(i)!IdempotencyAssumption, K(i)!Init PROVE KeyInv(i)
<1>1. /\ owned \in [Calls[i] -> BOOLEAN] /\ aborted \in [Calls[i] -> BOOLEAN] BY Zenon DEF K!Init
<1>2. K(i)!None \in K(i)!Entries /\ K(i)!None.status = "none" BY DEF K!Entries, K!None
<1>3. K(i)!TypeOK BY <1>1, <1>2, AnswerTypes DEF K!Init, K!TypeOK, K!IdempotencyAssumption
<1>4. ASSUME NEW c \in Calls[i] PROVE CallInv(i, c) BY AnswerTypes DEF K!Init, CallInv
<1>5. QED BY <1>3, <1>4 DEF KeyInv

\* A step of a key keeps the invariant of its entry and of its calls.
LEMMA KeyNext ==
    ASSUME NEW i \in Keys, K(i)!IdempotencyAssumption, KeyInv(i), K(i)!Next \/ UNCHANGED K(i)!vars
    PROVE KeyInv(i)'
<1> USE DEF KeyInv, K!TypeOK, CallInv, K!Goto, K!Run, K!Tell, K!ledger, K!IdempotencyAssumption
<1>0. /\ K(i)!Present \in K(i)!Entries
      /\ K(i)!Present.status = "started" => K(i)!Present.lease <= K(i)!Present.end
      /\ K(i)!None \in K(i)!Entries /\ K(i)!None.status = "none"
  BY PresentType, EntryTypes DEF K!None
<1>1. ASSUME NEW c \in Calls[i], K(i)!CallStep(c) PROVE KeyInv(i)'
  <2>1. CASE K(i)!Read(c)
    <3>1. CASE aborted[c] BY <1>0, <2>1, <3>1, AnswerTypes DEF K!Read
    <3>2. CASE ~aborted[c] /\ K(i)!isExpired(entry) BY <1>0, <2>1, <3>2 DEF K!Read
    <3>3. CASE ~aborted[c] /\ ~K(i)!isExpired(entry) BY <1>0, <2>1, <3>3 DEF K!Read
    <3>4. QED BY <3>1, <3>2, <3>3
  <2>2. CASE K(i)!Purge(c)
    BY <1>0, <2>2 DEF K!Purge
  <2>3. ASSUME NEW receipt \in BOOLEAN, K(i)!Proceed(c, receipt) PROVE KeyInv(i)'
    <3>1. /\ seen[c].status \in {"none", "started", "completed"}
          /\ seen[c].status = "completed" => seen[c].attempt \in Calls[i]
      BY EntryTypes, EntryFields
    <3>2. pc[c] = "read" /\ K(i)!Decide(c, seen[c], receipt)
          /\ UNCHANGED <<now, entry, seen, asked, owned, aborted, K(i)!ledger, crashes>>
      BY <2>3 DEF K!Proceed
    <3>3. CASE seen[c].status = "completed"
      <4>1. PICK a \in K(i)!Answers : /\ answer' = [answer EXCEPT ![c] = a]
                                 /\ a.kind \notin {"interrupted", "timeout"}
            /\ pc' = [pc EXCEPT ![c] = "done"] /\ UNCHANGED <<op, deadline>>
        BY <3>1, <3>2, <3>3, AnswerTypes DEF K!Decide
      <4>2. QED BY <3>2, <4>1
    <3>4. CASE seen[c].status = "started" /\ ~(receipt /\ now >= seen[c].lease)
      <4>1. /\ answer' = [answer EXCEPT ![c] = K(i)!Says("unknown")]
            /\ pc' = [pc EXCEPT ![c] = "done"] /\ UNCHANGED <<op, deadline>>
        BY <3>2, <3>4 DEF K!Decide
      <4>2. QED BY <3>2, <4>1, AnswerTypes
    <3>5. CASE seen[c].status = "started" /\ receipt /\ now >= seen[c].lease
      <4>1. /\ op' = [op EXCEPT ![c] = "replace"] /\ pc' = [pc EXCEPT ![c] = "replacing"]
            /\ deadline' = [deadline EXCEPT ![c] = now + MaxDuration[i]] /\ UNCHANGED answer
        BY <3>2, <3>5 DEF K!Decide
      <4>2. QED BY <3>2, <3>5, <4>1
    <3>6. CASE seen[c].status = "none"
      <4>1. /\ op' = [op EXCEPT ![c] = "claim"] /\ pc' = [pc EXCEPT ![c] = "claiming"]
            /\ deadline' = [deadline EXCEPT ![c] = now + MaxDuration[i]] /\ UNCHANGED answer
        BY <3>2, <3>6 DEF K!Decide
      <4>2. QED BY <3>2, <3>6, <4>1
    <3>7. QED BY <3>1, <3>3, <3>4, <3>5, <3>6
  <2>4. CASE K(i)!Claim(c)
    <3>1. K(i)!Present.status \notin {"started", "none"} => K(i)!Present.attempt \in Calls[i]
      BY <1>0, EntryTypes, EntryFields
    <3>2. CASE K(i)!CanClaim
      <4>1. entry' = K(i)!StartedExecution(c) /\ deadline[c] >= MaxDuration[i] BY <2>4, <3>2 DEF K!Claim
      <4>2. /\ entry' \in K(i)!Entries /\ entry'.lease <= entry'.end
        BY <4>1, StartedType, EntryTypes
      <4>3. CASE pc[c] = "done"
        <5>1. UNCHANGED <<pc, answer>> /\ op' = [op EXCEPT ![c] = "clean"]
          BY <2>4, <3>2, <4>3 DEF K!Claim
        <5>2. QED BY <2>4, <4>2, <4>3, <5>1 DEF K!Claim
      <4>4. CASE pc[c] # "done"
        <5>1. /\ pc' = [pc EXCEPT ![c] = "claimed"] /\ op' = [op EXCEPT ![c] = "none"]
              /\ UNCHANGED answer
          BY <2>4, <3>2, <4>4 DEF K!Claim
        <5>2. QED BY <2>4, <4>2, <4>4, <5>1 DEF K!Claim
      <4>5. QED BY <4>3, <4>4
    <3>3. CASE ~K(i)!CanClaim
      <4> DEFINE a == IF K(i)!Present.status = "started" THEN K(i)!Says("unknown")
                      ELSE K(i)!Result(K(i)!Present.attempt, "deduped")
      <4>0. a \in K(i)!Answers /\ a.kind \notin {"interrupted", "timeout"}
        BY <1>0, <3>1, <3>3, AnswerTypes, EntryTypes DEF K!CanClaim
      <4>1. IF pc[c] = "done" THEN UNCHANGED <<pc, answer>>
            ELSE answer' = [answer EXCEPT ![c] = a] /\ pc' = [pc EXCEPT ![c] = "done"]
        BY <2>4, <3>3 DEF K!Claim
      <4> HIDE DEF a
      <4>2. entry' = K(i)!Present /\ op' = [op EXCEPT ![c] = "none"]
        BY <2>4, <3>3 DEF K!Claim
      <4>3. CASE pc[c] = "done" BY <1>0, <2>4, <4>1, <4>2, <4>3 DEF K!Claim
      <4>4. CASE pc[c] # "done" BY <1>0, <2>4, <4>0, <4>1, <4>2, <4>4 DEF K!Claim
      <4>5. QED BY <4>3, <4>4
    <3>4. QED BY <3>2, <3>3
  <2>5. CASE K(i)!Replace(c)
    <3>1. K(i)!Present.status \in {"started", "completed"} => K(i)!Present.attempt \in Calls[i]
      BY <1>0, EntryFields
    <3>2. CASE K(i)!CanReplace(c)
      <4>1. /\ entry' = K(i)!StartedExecution(c) /\ deadline[c] >= MaxDuration[i]
            /\ settled' = settled \cup {seen[c].attempt} /\ seen[c].attempt \in Calls[i]
        BY <2>5, <3>1, <3>2 DEF K!Replace, K!CanReplace
      <4>2. /\ entry' \in K(i)!Entries /\ entry'.lease <= entry'.end
        BY <4>1, StartedType, EntryTypes
      <4>3. CASE pc[c] = "done"
        <5>1. UNCHANGED <<pc, answer>> /\ op' = [op EXCEPT ![c] = "clean"]
          BY <2>5, <3>2, <4>3 DEF K!Replace
        <5>2. QED BY <2>5, <4>1, <4>2, <4>3, <5>1 DEF K!Replace
      <4>4. CASE pc[c] # "done"
        <5>1. /\ pc' = [pc EXCEPT ![c] = "claimed"] /\ op' = [op EXCEPT ![c] = "none"]
              /\ UNCHANGED answer
          BY <2>5, <3>2, <4>4 DEF K!Replace
        <5>2. QED BY <2>5, <4>1, <4>2, <4>4, <5>1 DEF K!Replace
      <4>5. QED BY <4>3, <4>4
    <3>3. CASE ~K(i)!CanReplace(c)
      <4> DEFINE a == IF K(i)!Present.status = "completed"
                      THEN K(i)!Result(K(i)!Present.attempt, "deduped") ELSE K(i)!Says("unknown")
      <4>0. a \in K(i)!Answers /\ a.kind \notin {"interrupted", "timeout"}
        BY <3>1, AnswerTypes
      <4>1. IF pc[c] = "done" THEN UNCHANGED <<pc, answer>>
            ELSE answer' = [answer EXCEPT ![c] = a] /\ pc' = [pc EXCEPT ![c] = "done"]
        BY <2>5, <3>3 DEF K!Replace
      <4> HIDE DEF a
      <4>2. entry' = K(i)!Present /\ op' = [op EXCEPT ![c] = "none"] /\ settled' = settled
        BY <2>5, <3>3 DEF K!Replace
      <4>3. CASE pc[c] = "done" BY <1>0, <2>5, <4>1, <4>2, <4>3 DEF K!Replace
      <4>4. CASE pc[c] # "done" BY <1>0, <2>5, <4>0, <4>1, <4>2, <4>4 DEF K!Replace
      <4>5. QED BY <4>3, <4>4
    <3>4. QED BY <3>2, <3>3
  <2>6. CASE K(i)!Admit(c)
    <3>1. CASE now >= deadline[c]
      <4>1. /\ answer' = [answer EXCEPT ![c] = K(i)!Says("timeout")]
            /\ pc' = [pc EXCEPT ![c] = "done"] /\ op' = [op EXCEPT ![c] = "clean"]
        BY <2>6, <3>1 DEF K!Admit
      <4>2. K(i)!Says("timeout") \in K(i)!Answers BY AnswerTypes
      <4>3. QED BY <2>6, <4>1, <4>2 DEF K!Admit
    <3>2. CASE ~(now >= deadline[c]) BY <2>6, <3>2 DEF K!Admit
    <3>3. QED BY <3>1, <3>2
  <2>7. CASE K(i)!FirstRenewal(c)
    <3>1. CASE K(i)!CanRenew(c, asked[c])
      <4>1. /\ entry' = K(i)!Renewed(asked[c]) /\ entry' \in K(i)!Entries
            /\ entry'.status = "started" => entry'.lease <= entry'.end
        BY <2>7, <3>1, RenewedType, EntryTypes DEF K!FirstRenewal, K!CanRenew, K!Holds
      <4>2. CASE pc[c] = "done"
        <5>1. UNCHANGED <<pc, answer, owned>> /\ op' = [op EXCEPT ![c] = "clean"]
          BY <2>7, <3>1, <4>2 DEF K!FirstRenewal
        <5>2. QED BY <2>7, <4>1, <4>2, <5>1 DEF K!FirstRenewal
      <4>3. CASE pc[c] # "done"
        <5>1. /\ op' = [op EXCEPT ![c] = "none"] /\ pc' = [pc EXCEPT ![c] = "policy"]
              /\ owned' = [owned EXCEPT ![c] = TRUE] /\ answer' = answer
          BY <2>7, <3>1, <4>3 DEF K!FirstRenewal
        <5>2. owned' \in [Calls[i] -> BOOLEAN] BY <5>1
        <5>3. QED BY <2>7, <4>1, <4>3, <5>1, <5>2 DEF K!FirstRenewal
      <4>4. QED BY <4>2, <4>3
    <3>2. CASE ~K(i)!CanRenew(c, asked[c])
      <4>1. entry' = K(i)!Present /\ op' = [op EXCEPT ![c] = "none"] /\ owned' = owned
        BY <2>7, <3>2 DEF K!FirstRenewal
      <4>2. CASE pc[c] = "done"
        <5>1. UNCHANGED <<pc, answer>> BY <2>7, <3>2, <4>2 DEF K!FirstRenewal
        <5>2. QED BY <1>0, <2>7, <4>1, <4>2, <5>1 DEF K!FirstRenewal
      <4>3. CASE pc[c] # "done"
        <5>1. /\ answer' = [answer EXCEPT ![c] = K(i)!Says("unknown")]
              /\ pc' = [pc EXCEPT ![c] = "done"]
          BY <2>7, <3>2, <4>3 DEF K!FirstRenewal
        <5>2. QED BY <1>0, <2>7, <4>1, <4>3, <5>1, AnswerTypes DEF K!FirstRenewal
      <4>4. QED BY <4>2, <4>3
    <3>3. QED BY <3>1, <3>2
  <2>8. CASE K(i)!Interrupt(c)
    BY <1>0, <2>8, AnswerTypes DEF K!Interrupt
  <2>9. CASE K(i)!Clean(c)
    BY <1>0, <2>9 DEF K!Clean
  <2>10. CASE K(i)!Renew(c)
    <3>1. owned' \in [Calls[i] -> BOOLEAN] BY <2>10 DEF K!Renew, K!CanRenew, K!Holds
    <3>2. CASE owned[c] /\ K(i)!CanRenew(c, now)
      BY <1>0, <2>10, <3>1, <3>2, RenewedType, EntryTypes DEF K!Renew, K!CanRenew, K!Holds
    <3>3. CASE ~(owned[c] /\ K(i)!CanRenew(c, now))
      BY <1>0, <2>10, <3>1, <3>3 DEF K!Renew
    <3>4. QED BY <3>2, <3>3
  <2>11. CASE K(i)!StartCallback(c)
    BY <1>0, <2>11 DEF K!StartCallback
  <2>12. ASSUME NEW outcome \in {"success", "cleared", "thrown", "failed"}, K(i)!Finish(c, outcome)
         PROVE KeyInv(i)'
    <3> DEFINE mine == owned[c] /\ ~aborted[c]
    <3>1. CASE outcome = "thrown"
      <4>1. /\ answer' = [answer EXCEPT ![c] = K(i)!Says("error")]
            /\ pc' = [pc EXCEPT ![c] = "done"] /\ op' = [op EXCEPT ![c] = "clean"]
            /\ settled' = settled \cup {c}
        BY <2>12, <3>1 DEF K!Finish
      <4>2. QED BY <2>12, <4>1, AnswerTypes DEF K!Finish
    <3>2. CASE ~mine /\ outcome # "thrown"
      <4>1. /\ answer' = [answer EXCEPT ![c] = K(i)!Says("unknown")]
            /\ pc' = [pc EXCEPT ![c] = "done"] /\ UNCHANGED <<op, settled>>
        BY <2>12, <3>2 DEF K!Finish
      <4>2. QED BY <2>12, <4>1, AnswerTypes DEF K!Finish
    <3>3. CASE mine /\ outcome = "success"
      <4>1. /\ pc' = [pc EXCEPT ![c] = "completing"] /\ op' = [op EXCEPT ![c] = "complete"]
            /\ UNCHANGED <<answer, settled>>
        BY <2>12, <3>3 DEF K!Finish
      <4>2. QED BY <2>12, <4>1, AnswerTypes DEF K!Finish
    <3>4. CASE mine /\ outcome = "cleared"
      <4>1. /\ answer' = [answer EXCEPT ![c] = K(i)!Says("error")]
            /\ pc' = [pc EXCEPT ![c] = "done"] /\ op' = [op EXCEPT ![c] = "clean"]
            /\ settled' = settled \cup {c}
        BY <2>12, <3>4 DEF K!Finish
      <4>2. QED BY <2>12, <4>1, AnswerTypes DEF K!Finish
    <3>5. CASE mine /\ outcome = "failed"
      <4>1. /\ answer' = [answer EXCEPT ![c] = K(i)!Says("error")]
            /\ pc' = [pc EXCEPT ![c] = "done"] /\ UNCHANGED <<op, settled>>
        BY <2>12, <3>5 DEF K!Finish
      <4>2. QED BY <2>12, <4>1, AnswerTypes DEF K!Finish
    <3>6. QED BY <2>12, <3>1, <3>2, <3>3, <3>4, <3>5
  <2>13. CASE K(i)!Complete(c)
    <3>1. CASE K(i)!CanRenew(c, asked[c])
      <4>1. K(i)!Completed(c, now + TTL[i]).status = "completed" BY DEF K!Completed
      <4>2. /\ entry' = K(i)!Completed(c, now + TTL[i]) /\ entry' \in K(i)!Entries
            /\ entry'.status = "completed" /\ op' = [op EXCEPT ![c] = "none"]
            /\ finished' = [finished EXCEPT ![c] = now + TTL[i]]
        BY <2>13, <3>1, <4>1, CompletedType, EntryTypes DEF K!Complete
      <4>3. finished' \in [Calls[i] -> 0 .. MaxNow[i] + TTL[i]] BY <4>2, CompletedType
      <4>4. CASE pc[c] = "done"
        <5>1. UNCHANGED <<pc, answer>> BY <2>13, <4>4 DEF K!Complete
        <5>2. QED BY <2>13, <4>2, <4>3, <4>4, <5>1 DEF K!Complete
      <4>5. CASE pc[c] # "done"
        <5>1. /\ answer' = [answer EXCEPT ![c] = K(i)!Result(c, "fresh")]
              /\ pc' = [pc EXCEPT ![c] = "done"]
          BY <2>13, <3>1, <4>5 DEF K!Complete
        <5>2. QED BY <2>13, <4>2, <4>3, <4>5, <5>1, AnswerTypes DEF K!Complete
      <4>6. QED BY <4>4, <4>5
    <3>2. CASE ~K(i)!CanRenew(c, asked[c])
      <4>1. entry' = K(i)!Present /\ finished' = finished /\ op' = [op EXCEPT ![c] = "none"]
        BY <2>13, <3>2 DEF K!Complete
      <4>2. CASE pc[c] = "done"
        <5>1. UNCHANGED <<pc, answer>> BY <2>13, <4>2 DEF K!Complete
        <5>2. QED BY <1>0, <2>13, <4>1, <4>2, <5>1 DEF K!Complete
      <4>3. CASE pc[c] # "done"
        <5>1. /\ answer' = [answer EXCEPT ![c] = K(i)!Says("unknown")]
              /\ pc' = [pc EXCEPT ![c] = "done"]
          BY <2>13, <3>2, <4>3 DEF K!Complete
        <5>2. /\ K(i)!Says("unknown") \in K(i)!Answers
              /\ K(i)!Says("unknown").kind = "unknown"
          BY AnswerTypes
        <5>3. QED BY <1>0, <2>13, <4>1, <4>3, <5>1, <5>2 DEF K!Complete
      <4>4. QED BY <4>2, <4>3
    <3>3. QED BY <3>1, <3>2
  <2>14. CASE K(i)!GiveUpCompletion(c)
    BY <1>0, <2>14, AnswerTypes DEF K!GiveUpCompletion
  <2>15. CASE K(i)!Abort(c)
    BY <1>0, <2>15 DEF K!Abort
  <2>16. QED
    BY <1>1, <2>1, <2>2, <2>3, <2>4, <2>5, <2>6, <2>7, <2>8, <2>9, <2>10, <2>11, <2>12,
       <2>13, <2>14, <2>15 DEF K!CallStep
<1>2. CASE K(i)!Crash BY <1>0, <1>2 DEF K!Crash
<1>3. CASE K(i)!Tick BY <1>0, <1>3 DEF K!Tick
<1>4. CASE UNCHANGED K(i)!vars BY <1>4 DEF K!vars
<1>5. QED BY <1>1, <1>2, <1>3, <1>4 DEF K!Next

-----------------------------------------------------------------------------
(* The marker.                                                             *)

\* Whose marker the store holds, and what became of that attempt: an attempt
\* that answered before the tool ran has an operation under way that ends in
\* the removal of its marker, and one that was settled records nothing.
MarkerInv(i) ==
    /\ \A c \in Calls[i] :
          Mine(c) =>
             /\ entry.end = deadline[c]
             /\ pc[c] \in {"claimed", "renewing", "policy", "running", "completing", "done", "dead"}
             /\ op[c] \notin {"purge", "claim", "replace"}
             /\ pc[c] = "done" /\ answer[c].kind \in {"interrupted", "timeout"} =>
                   op[c] \in {"renew", "clean"}
             /\ c \in settled => pc[c] \in {"done", "dead"} /\ op[c] # "complete"
    /\ \A c \in settled :
          /\ pc[c] \notin {"idle", "purging", "read", "claiming", "replacing"}
          /\ op[c] \notin {"claim", "replace"}

\* No marker is there at the start.
LEMMA InitMarker ==
    ASSUME NEW i \in Keys, K(i)!Init PROVE MarkerInv(i)
  BY DEF K!Init, MarkerInv, Mine, K!None

\* A step leaves no marker of a call that has ended before the tool ran.
LEMMA NextMarker ==
    ASSUME NEW i \in Keys, K(i)!IdempotencyAssumption, KeyInv(i), KeyInv(i)', MarkerInv(i),
           K(i)!Next \/ UNCHANGED K(i)!vars
    PROVE MarkerInv(i)'
<1> USE DEF KeyInv, K!TypeOK, CallInv, K!Goto, K!Run, K!Tell, K!ledger, K!IdempotencyAssumption,
            MarkerInv, Mine
<1>0. /\ K(i)!Present \in K(i)!Entries /\ K(i)!Present \in {K(i)!None, entry}
         /\ K(i)!None.status = "none"
      /\ K(i)!Present.status = "started" => K(i)!Present = entry
      /\ entry.status = "started" => K(i)!Present = entry
  BY PresentType DEF K!None
<1>1. ASSUME NEW c \in Calls[i], K(i)!CallStep(c) PROVE MarkerInv(i)'
  <2>1. CASE K(i)!Read(c)
    <3>1. /\ pc[c] = "idle" /\ UNCHANGED <<entry, settled, deadline>>
          /\ \A d \in Calls[i] \ {c} :
                pc'[d] = pc[d] /\ op'[d] = op[d] /\ answer'[d] = answer[d]
      BY <2>1 DEF K!Read
    <3>2. ~Mine(c) /\ c \notin settled BY <3>1
    <3>3. QED BY <3>1, <3>2
  <2>2. CASE K(i)!Purge(c) BY <1>0, <2>2 DEF K!Purge
  <2>3. ASSUME NEW receipt \in BOOLEAN, K(i)!Proceed(c, receipt) PROVE MarkerInv(i)'
    <3>1. /\ pc[c] = "read" /\ op[c] = "none" /\ UNCHANGED <<entry, settled>>
          /\ \A d \in Calls[i] \ {c} :
                pc'[d] = pc[d] /\ op'[d] = op[d] /\ deadline'[d] = deadline[d]
                /\ answer'[d] = answer[d]
      <4>1. seen[c].status \in {"none", "started", "completed"} BY EntryTypes
      <4>2. CASE seen[c].status = "completed" BY <2>3, <4>2 DEF K!Proceed, K!Decide
      <4>3. CASE seen[c].status = "started" /\ ~(receipt /\ now >= seen[c].lease)
        BY <2>3, <4>3 DEF K!Proceed, K!Decide
      <4>4. CASE seen[c].status = "started" /\ receipt /\ now >= seen[c].lease
        <5>1. /\ op' = [op EXCEPT ![c] = "replace"] /\ pc' = [pc EXCEPT ![c] = "replacing"]
              /\ deadline' = [deadline EXCEPT ![c] = now + MaxDuration[i]] /\ UNCHANGED answer
          BY <2>3, <4>4 DEF K!Proceed, K!Decide
        <5>2. QED BY <2>3, <5>1 DEF K!Proceed
      <4>5. CASE seen[c].status = "none" BY <2>3, <4>5 DEF K!Proceed, K!Decide
      <4>6. QED BY <4>1, <4>2, <4>3, <4>4, <4>5
    <3>2. ~Mine(c) /\ c \notin settled BY <3>1
    <3>3. QED BY <3>1, <3>2
  <2>4. CASE K(i)!Claim(c)
    <3>1. CASE K(i)!CanClaim
      BY <1>0, <2>4, <3>1, StartedType, AnswerTypes DEF K!Claim, K!CanClaim
    <3>2. CASE ~K(i)!CanClaim BY <1>0, <2>4, <3>2, AnswerTypes DEF K!Claim
    <3>3. QED BY <3>1, <3>2
  <2>5. CASE K(i)!Replace(c)
    <3>1. CASE K(i)!CanReplace(c)
      BY <1>0, <2>5, <3>1, StartedType, AnswerTypes DEF K!Replace, K!CanReplace
    <3>2. CASE ~K(i)!CanReplace(c) BY <1>0, <2>5, <3>2, AnswerTypes DEF K!Replace
    <3>3. QED BY <3>1, <3>2
  <2>6. CASE K(i)!Admit(c) BY <2>6, AnswerTypes DEF K!Admit
  <2>7. CASE K(i)!FirstRenewal(c)
    <3>1. CASE K(i)!CanRenew(c, asked[c])
      <4>1. /\ entry' = K(i)!Renewed(asked[c]) /\ K(i)!Present.status = "started"
            /\ entry.attempt = c
        BY <1>0, <2>7, <3>1 DEF K!FirstRenewal, K!CanRenew, K!Holds
      <4>2. /\ entry'.status = "started" /\ entry'.attempt = entry.attempt /\ entry'.end = entry.end
        BY <4>1, RenewedType
      <4>3. QED BY <1>0, <2>7, <3>1, <4>1, <4>2 DEF K!FirstRenewal
    <3>2. CASE ~K(i)!CanRenew(c, asked[c])
      BY <1>0, <2>7, <3>2, AnswerTypes DEF K!FirstRenewal, K!CanRenew, K!Holds
    <3>3. QED BY <3>1, <3>2
  <2>8. CASE K(i)!Interrupt(c) BY <2>8, AnswerTypes DEF K!Interrupt
  <2>9. CASE K(i)!Clean(c) BY <1>0, <2>9 DEF K!Clean, K!Holds
  <2>10. CASE K(i)!Renew(c)
    <3>1. CASE owned[c] /\ K(i)!CanRenew(c, now)
      BY <1>0, <2>10, <3>1, RenewedType DEF K!Renew, K!CanRenew, K!Holds
    <3>2. CASE ~(owned[c] /\ K(i)!CanRenew(c, now)) BY <2>10, <3>2 DEF K!Renew
    <3>3. QED BY <3>1, <3>2
  <2>11. CASE K(i)!StartCallback(c) BY <2>11 DEF K!StartCallback
  <2>12. ASSUME NEW outcome \in {"success", "cleared", "thrown", "failed"}, K(i)!Finish(c, outcome)
         PROVE MarkerInv(i)'
    <3>1. /\ pc[c] \in {"policy", "running"} /\ UNCHANGED <<entry, deadline>>
          /\ \A d \in Calls[i] \ {c} :
                pc'[d] = pc[d] /\ op'[d] = op[d] /\ answer'[d] = answer[d]
                /\ (d \in settled' <=> d \in settled)
          /\ settled' \in {settled, settled \cup {c}}
          /\ \/ pc'[c] = "done" /\ op'[c] \in {"none", "clean"}
                /\ answer'[c] \in {K(i)!Says("error"), K(i)!Says("unknown")}
             \/ pc'[c] = "completing" /\ op'[c] = "complete" /\ UNCHANGED <<settled, answer>>
      <4> DEFINE mine == owned[c] /\ ~aborted[c]
      <4>1. CASE outcome = "thrown"
        <5>1. /\ answer' = [answer EXCEPT ![c] = K(i)!Says("error")]
              /\ pc' = [pc EXCEPT ![c] = "done"] /\ op' = [op EXCEPT ![c] = "clean"]
              /\ settled' = settled \cup {c} /\ UNCHANGED <<entry, deadline>>
          BY <2>12, <4>1 DEF K!Finish
        <5>2. pc[c] \in {"policy", "running"} BY <2>12 DEF K!Finish
        <5>3. QED BY <5>1, <5>2
      <4>2. CASE ~mine /\ outcome # "thrown"
        <5>1. /\ answer' = [answer EXCEPT ![c] = K(i)!Says("unknown")]
              /\ pc' = [pc EXCEPT ![c] = "done"] /\ UNCHANGED <<op, settled, entry, deadline>>
          BY <2>12, <4>2 DEF K!Finish
        <5>2. pc[c] \in {"policy", "running"} BY <2>12 DEF K!Finish
        <5>3. QED BY <5>1, <5>2
      <4>3. CASE mine /\ outcome = "success" BY <2>12, <4>3 DEF K!Finish
      <4>4. CASE mine /\ outcome = "cleared"
        <5>1. /\ answer' = [answer EXCEPT ![c] = K(i)!Says("error")]
              /\ pc' = [pc EXCEPT ![c] = "done"] /\ op' = [op EXCEPT ![c] = "clean"]
              /\ settled' = settled \cup {c} /\ UNCHANGED <<entry, deadline>>
          BY <2>12, <4>4 DEF K!Finish
        <5>2. pc[c] \in {"policy", "running"} BY <2>12 DEF K!Finish
        <5>3. QED BY <5>1, <5>2
      <4>5. CASE mine /\ outcome = "failed"
        <5>1. /\ answer' = [answer EXCEPT ![c] = K(i)!Says("error")]
              /\ pc' = [pc EXCEPT ![c] = "done"]
              /\ UNCHANGED <<op, settled, entry, deadline>>
          BY <2>12, <4>5 DEF K!Finish
        <5>2. pc[c] \in {"policy", "running"} BY <2>12 DEF K!Finish
        <5>3. QED BY <5>1, <5>2
      <4>6. QED BY <2>12, <4>1, <4>2, <4>3, <4>4, <4>5
    <3>2. K(i)!Says("error").kind = "error" /\ K(i)!Says("unknown").kind = "unknown"
      BY AnswerTypes
    <3>3. QED BY <3>1, <3>2
  <2>13. CASE K(i)!Complete(c)
    <3>1. CASE K(i)!CanRenew(c, asked[c])
      <4>1. entry'.status = "completed" BY <2>13, <3>1 DEF K!Complete, K!Completed
      <4>2. QED BY <2>13, <3>1, <4>1 DEF K!Complete
    <3>2. CASE ~K(i)!CanRenew(c, asked[c]) BY <1>0, <2>13, <3>2, AnswerTypes DEF K!Complete
    <3>3. QED BY <3>1, <3>2
  <2>14. CASE K(i)!GiveUpCompletion(c) BY <2>14, AnswerTypes DEF K!GiveUpCompletion
  <2>15. CASE K(i)!Abort(c) BY <2>15 DEF K!Abort
  <2>16. QED
    BY <1>1, <2>1, <2>2, <2>3, <2>4, <2>5, <2>6, <2>7, <2>8, <2>9, <2>10, <2>11, <2>12,
       <2>13, <2>14, <2>15 DEF K!CallStep
<1>2. CASE K(i)!Crash BY <1>2 DEF K!Crash
<1>3. CASE K(i)!Tick BY <1>3 DEF K!Tick
<1>4. CASE UNCHANGED K(i)!vars BY <1>4 DEF K!vars
<1>5. QED BY <1>1, <1>2, <1>3, <1>4 DEF K!Next

-----------------------------------------------------------------------------
(* The effects, as long as no recorded result runs out.                    *)

\* The key belongs to the one attempt that was started and not settled; it is
\* neither removed, nor claimed, nor purged from under it.
EffectInv(i) ==
    /\ entry.status = "completed" => entry.expires >= MaxNow[i]
    /\ \A c \in Calls[i] : pc[c] # "purging" /\ op[c] # "purge"
    /\ \A c \in effects :
          /\ pc[c] \in {"running", "completing", "done", "dead"}
          /\ op[c] \notin {"claim", "replace", "renew"}
          /\ op[c] = "clean" => c \in settled
    /\ \A c \in Calls[i] :
          \/ c \in effects
          \/ pc[c] \in {"claimed", "renewing", "policy", "running", "completing"}
          => c \in settled \/ Owns(i, c)
    /\ \A c \in Calls[i] : finished[c] # 0 => finished[c] >= MaxNow[i]

\* No callback has started at the start.
LEMMA InitEffect ==
    ASSUME NEW i \in Keys, K(i)!Init PROVE EffectInv(i)
  BY DEF K!Init, EffectInv, K!None

\* While no result runs out, a step starts no second callback without a receipt.
LEMMA NextEffect ==
    ASSUME NEW i \in Keys, K(i)!IdempotencyAssumption, TTL[i] >= MaxNow[i], KeyInv(i),
       KeyInv(i)', MarkerInv(i), EffectInv(i),
           K(i)!Next \/ UNCHANGED K(i)!vars
    PROVE  EffectInv(i)'
<1> USE DEF KeyInv, K!TypeOK, CallInv, K!Goto, K!Run, K!Tell, K!ledger, K!IdempotencyAssumption,
            EffectInv, Owns
<1>0. /\ K(i)!Present = entry /\ ~K(i)!isExpired(entry) /\ K(i)!None.status = "none"
  <2>1. entry.status = "completed" => entry.expires \in Int
    BY EntryTypes DEF CompletedEntries
  <2>2. QED BY <2>1 DEF K!Present, K!isExpired, K!None
<1>1. ASSUME NEW c \in Calls[i], K(i)!CallStep(c) PROVE EffectInv(i)'
  <2>1. CASE K(i)!Read(c)
    <3>1. CASE aborted[c] BY <1>0, <2>1, <3>1 DEF K!Read
    <3>2. CASE ~aborted[c] BY <1>0, <2>1, <3>2 DEF K!Read
    <3>3. QED BY <3>1, <3>2
  <2>2. CASE K(i)!Purge(c) BY <2>2 DEF K!Purge
  <2>3. ASSUME NEW receipt \in BOOLEAN, K(i)!Proceed(c, receipt) PROVE EffectInv(i)'
    <3>1. /\ pc[c] = "read" /\ op[c] = "none" /\ UNCHANGED <<entry, settled, effects, finished>>
          /\ \A d \in Calls[i] \ {c} : pc'[d] = pc[d] /\ op'[d] = op[d]
          /\ pc'[c] \in {"done", "replacing", "claiming"}
             /\ op'[c] \in {"none", "replace", "claim"}
      <4>1. seen[c].status \in {"none", "started", "completed"} BY EntryTypes
      <4>2. CASE seen[c].status = "completed" BY <2>3, <4>2 DEF K!Proceed, K!Decide
      <4>3. CASE seen[c].status = "started" /\ ~(receipt /\ now >= seen[c].lease)
        BY <2>3, <4>3 DEF K!Proceed, K!Decide
      <4>4. CASE seen[c].status = "started" /\ receipt /\ now >= seen[c].lease
        <5>1. op' = [op EXCEPT ![c] = "replace"] /\ pc' = [pc EXCEPT ![c] = "replacing"]
          BY <2>3, <4>4 DEF K!Proceed, K!Decide
        <5>2. QED BY <2>3, <5>1 DEF K!Proceed
      <4>5. CASE seen[c].status = "none" BY <2>3, <4>5 DEF K!Proceed, K!Decide
      <4>6. QED BY <4>1, <4>2, <4>3, <4>4, <4>5
    <3>2. QED BY <3>1
  <2>4. CASE K(i)!Claim(c)
    <3>1. CASE K(i)!CanClaim
      <4>1. entry = K(i)!None BY <1>0, <3>1 DEF K!CanClaim
      <4>2. /\ entry' = K(i)!StartedExecution(c) /\ entry'.status = "started"
               /\ entry'.attempt = c
        BY <2>4, <3>1, StartedType DEF K!Claim
      <4>3. QED BY <1>0, <2>4, <3>1, <4>1, <4>2 DEF K!Claim
    <3>2. CASE ~K(i)!CanClaim BY <1>0, <2>4, <3>2 DEF K!Claim
    <3>3. QED BY <3>1, <3>2
  <2>5. CASE K(i)!Replace(c)
    <3>1. CASE K(i)!CanReplace(c)
      <4>1. /\ entry' = K(i)!StartedExecution(c) /\ entry'.status = "started"
               /\ entry'.attempt = c
            /\ entry.attempt = seen[c].attempt /\ settled' = settled \cup {entry.attempt}
        BY <1>0, <2>5, <3>1, StartedType DEF K!Replace, K!CanReplace
      <4>2. QED BY <1>0, <2>5, <3>1, <4>1 DEF K!Replace
    <3>2. CASE ~K(i)!CanReplace(c) BY <1>0, <2>5, <3>2 DEF K!Replace
    <3>3. QED BY <3>1, <3>2
  <2>6. CASE K(i)!Admit(c) BY <2>6 DEF K!Admit
  <2>7. CASE K(i)!FirstRenewal(c)
    <3>1. CASE K(i)!CanRenew(c, asked[c])
      BY <1>0, <2>7, <3>1, RenewedType DEF K!FirstRenewal, K!CanRenew, K!Holds
    <3>2. CASE ~K(i)!CanRenew(c, asked[c])
      BY <1>0, <2>7, <3>2 DEF K!FirstRenewal
    <3>3. QED BY <3>1, <3>2
  <2>8. CASE K(i)!Interrupt(c) BY <2>8 DEF K!Interrupt
  <2>9. CASE K(i)!Clean(c)
    <3>1. c \notin effects \/ c \in settled BY <2>9 DEF K!Clean
    <3>2. QED BY <1>0, <2>9, <3>1 DEF K!Clean, K!Holds
  <2>10. CASE K(i)!Renew(c)
    <3>1. CASE owned[c] /\ K(i)!CanRenew(c, now)
      BY <1>0, <2>10, <3>1, RenewedType DEF K!Renew, K!CanRenew, K!Holds
    <3>2. CASE ~(owned[c] /\ K(i)!CanRenew(c, now)) BY <2>10, <3>2 DEF K!Renew
    <3>3. QED BY <3>1, <3>2
  <2>11. CASE K(i)!StartCallback(c) BY <2>11 DEF K!StartCallback
  <2>12. ASSUME NEW outcome \in {"success", "cleared", "thrown", "failed"}, K(i)!Finish(c, outcome)
         PROVE EffectInv(i)'
    <3>1. /\ pc[c] \in {"policy", "running"} /\ UNCHANGED <<entry, effects, finished>>
          /\ \A d \in Calls[i] \ {c} : pc'[d] = pc[d] /\ op'[d] = op[d]
          /\ \/ pc'[c] = "done" /\ op'[c] = "none" /\ settled' = settled
             \/ pc'[c] = "done" /\ op'[c] = "clean" /\ settled' = settled \cup {c}
             \/ pc'[c] = "completing" /\ op'[c] = "complete" /\ settled' = settled
                /\ pc[c] = "running"
      <4> DEFINE mine == owned[c] /\ ~aborted[c]
      <4>1. CASE outcome = "thrown"
        <5>1. /\ pc' = [pc EXCEPT ![c] = "done"] /\ op' = [op EXCEPT ![c] = "clean"]
              /\ settled' = settled \cup {c} /\ UNCHANGED <<entry, effects, finished>>
          BY <2>12, <4>1 DEF K!Finish
        <5>2. pc[c] \in {"policy", "running"} BY <2>12 DEF K!Finish
        <5>3. QED BY <5>1, <5>2
      <4>2. CASE ~mine /\ outcome # "thrown"
        <5>1. /\ pc' = [pc EXCEPT ![c] = "done"]
              /\ UNCHANGED <<op, settled, entry, effects, finished>>
          BY <2>12, <4>2 DEF K!Finish
        <5>2. pc[c] \in {"policy", "running"} BY <2>12 DEF K!Finish
        <5>3. QED BY <5>1, <5>2
      <4>3. CASE mine /\ outcome = "success" BY <2>12, <4>3 DEF K!Finish
      <4>4. CASE mine /\ outcome = "cleared"
        <5>1. /\ pc' = [pc EXCEPT ![c] = "done"] /\ op' = [op EXCEPT ![c] = "clean"]
              /\ settled' = settled \cup {c} /\ UNCHANGED <<entry, effects, finished>>
          BY <2>12, <4>4 DEF K!Finish
        <5>2. pc[c] \in {"policy", "running"} BY <2>12 DEF K!Finish
        <5>3. QED BY <5>1, <5>2
      <4>5. CASE mine /\ outcome = "failed"
        <5>1. /\ pc' = [pc EXCEPT ![c] = "done"]
              /\ UNCHANGED <<op, settled, entry, effects, finished>>
          BY <2>12, <4>5 DEF K!Finish
        <5>2. pc[c] \in {"policy", "running"} BY <2>12 DEF K!Finish
        <5>3. QED BY <5>1, <5>2
      <4>6. QED BY <2>12, <4>1, <4>2, <4>3, <4>4, <4>5
    <3>2. QED BY <3>1
  <2>13. CASE K(i)!Complete(c)
    <3>1. CASE K(i)!CanRenew(c, asked[c])
      <4>1. entry.attempt = c BY <1>0, <3>1 DEF K!CanRenew, K!Holds
      <4>2. /\ entry' = K(i)!Completed(c, now + TTL[i]) /\ entry'.attempt = c
            /\ entry' # K(i)!None /\ entry'.expires = now + TTL[i]
            /\ finished' = [finished EXCEPT ![c] = now + TTL[i]]
            /\ op' = [op EXCEPT ![c] = "none"] /\ UNCHANGED <<effects, settled>>
        BY <2>13, <3>1 DEF K!Complete, K!Completed, K!None
      <4>3. pc' = pc \/ pc' = [pc EXCEPT ![c] = "done"] BY <2>13 DEF K!Complete
      <4>4. QED BY <4>1, <4>2, <4>3
    <3>2. CASE ~K(i)!CanRenew(c, asked[c]) BY <1>0, <2>13, <3>2 DEF K!Complete
    <3>3. QED BY <3>1, <3>2
  <2>14. CASE K(i)!GiveUpCompletion(c) BY <2>14 DEF K!GiveUpCompletion
  <2>15. CASE K(i)!Abort(c) BY <2>15 DEF K!Abort
  <2>16. QED
    BY <1>1, <2>1, <2>2, <2>3, <2>4, <2>5, <2>6, <2>7, <2>8, <2>9, <2>10, <2>11, <2>12,
       <2>13, <2>14, <2>15 DEF K!CallStep
<1>2. CASE K(i)!Crash BY <1>2 DEF K!Crash
<1>3. CASE K(i)!Tick BY <1>3 DEF K!Tick
<1>4. CASE UNCHANGED K(i)!vars BY <1>4 DEF K!vars
<1>5. QED BY <1>1, <1>2, <1>3, <1>4 DEF K!Next

-----------------------------------------------------------------------------
(* Only the approval, or the key, that the initial state picks moves.      *)

ToolsInv ==
    /\ \A i \in Approvals : instance = i =>
          /\ ApprovalInv(i) /\ TokenInv(i)
          /\ MaxFaults[i] < 3 => ExchangeInv(i)
    /\ \A i \in Keys : instance = i =>
          /\ KeyInv(i) /\ MarkerInv(i)
          /\ TTL[i] >= MaxNow[i] => EffectInv(i)

\* The invariants of the component that is picked hold at the start.
LEMMA ToolsInit ==
    ASSUME Init PROVE ToolsInv
<1>1. ASSUME NEW i \in Approvals, instance = i
      PROVE  ApprovalInv(i) /\ TokenInv(i) /\ (MaxFaults[i] < 3 => ExchangeInv(i))
  <2>1. A(i)!Init BY <1>1, Apart DEF Init
  <2>2. ExchangeInv(i) BY <2>1 DEF A!Init, ExchangeInv
  <2>3. QED BY <2>1, <2>2, ApprovalInit, InitToken, ApprovalInstances
<1>2. ASSUME NEW i \in Keys, instance = i
      PROVE  KeyInv(i) /\ MarkerInv(i) /\ (TTL[i] >= MaxNow[i] => EffectInv(i))
  <2>1. K(i)!Init BY <1>2, Apart DEF Init
  <2>2. QED BY <2>1, KeyInit, InitMarker, InitEffect, KeyInstances
<1>3. QED BY <1>1, <1>2 DEF ToolsInv

\* A step moves the one that is picked as its component moves, or not at all.
LEMMA OnePickMoves ==
    ASSUME [Next]_vars
    PROVE  /\ instance' = instance
           /\ \A i \in Approvals : instance = i => A(i)!Next \/ UNCHANGED A(i)!vars
           /\ \A i \in Keys : instance = i => K(i)!Next \/ UNCHANGED K(i)!vars
<1>1. CASE UNCHANGED vars
  BY <1>1 DEF vars, approvalVars, callVars, A!vars, K!vars
<1>2. CASE Next BY <1>2, Apart DEF Next
<1>3. QED BY <1>1, <1>2

\* A step keeps the invariants of the component that is picked.
LEMMA ToolsNext ==
    ASSUME ToolsInv, [Next]_vars PROVE ToolsInv'
<1>1. ASSUME NEW i \in Approvals, instance' = i
      PROVE  (ApprovalInv(i) /\ TokenInv(i) /\ (MaxFaults[i] < 3 => ExchangeInv(i)))'
  <2>1. /\ ApprovalInv(i) /\ TokenInv(i) /\ (MaxFaults[i] < 3 => ExchangeInv(i))
        /\ A(i)!Next \/ UNCHANGED A(i)!vars
    BY <1>1, OnePickMoves DEF ToolsInv
  <2>2. ApprovalInv(i)' BY <2>1, ApprovalNext, ApprovalInstances
  <2>3. TokenInv(i)' BY <2>1, NextToken, ApprovalInstances
  <2>4. MaxFaults[i] < 3 => ExchangeInv(i)' BY <2>1, NextExchange, ApprovalInstances
  <2>5. QED BY <2>2, <2>3, <2>4
<1>2. ASSUME NEW i \in Keys, instance' = i
      PROVE  (KeyInv(i) /\ MarkerInv(i) /\ (TTL[i] >= MaxNow[i] => EffectInv(i)))'
  <2>1. /\ KeyInv(i) /\ MarkerInv(i) /\ (TTL[i] >= MaxNow[i] => EffectInv(i))
        /\ K(i)!Next \/ UNCHANGED K(i)!vars
    BY <1>2, OnePickMoves DEF ToolsInv
  <2>2. KeyInv(i)' BY <2>1, KeyNext, KeyInstances
  <2>3. MarkerInv(i)' BY <2>1, <2>2, NextMarker, KeyInstances
  <2>4. TTL[i] >= MaxNow[i] => EffectInv(i)' BY <2>1, <2>2, NextEffect, KeyInstances
  <2>5. QED BY <2>2, <2>3, <2>4
<1>3. QED BY <1>1, <1>2 DEF ToolsInv

\* The invariant of the composition.
LEMMA ToolsInvariant == Spec => []ToolsInv
<1>1. Init => ToolsInv BY ToolsInit
<1>2. ToolsInv /\ [Next]_vars => ToolsInv' BY ToolsNext
<1>3. QED BY <1>1, <1>2, PTL DEF Spec

-----------------------------------------------------------------------------
(* The theorems.                                                           *)

\* However many requests resume an approval, and whatever interrupts, restores,
\* revokes or expires it in between, at most one of them passes with it
\* (reserve, commit and release of approval-binding.ts); and every variable
\* keeps its type, so a late issuance is revoked at most three times
\* (revokeLateIssuance).
THEOREM ApprovalIsSpentOnce == Spec => []SpentOnce
<1>1. ASSUME ToolsInv, NEW i \in Approvals, instance = i PROVE A(i)!TypeOK /\ A(i)!SpentOnce
  BY <1>1 DEF ToolsInv, ApprovalInv, TokenInv, Holder, A!SpentOnce
<1>2. ToolsInv => SpentOnce BY <1>1 DEF SpentOnce
<1>3. QED BY <1>2, ToolsInvariant, PTL

\* When nobody is on the way through the store, nothing is left reserved, and
\* what is consumed was passed with (consume and its rollback).  A result that
\* says "not consumed" is never that of a call that passed, so the bureau may
\* offer the approval again on its word (create-bureau.ts).  And while revoke()
\* fails fewer than three times in all, which is how often revokeLateIssuance
\* tries it, an approval is exchanged whole: the new one can be used if and only
\* if the old one was given for it.
THEOREM ApprovalIsGivenBack == Spec => []GivenBack
<1>1. ASSUME ToolsInv, NEW i \in Approvals, instance = i
      PROVE  /\ A(i)!GivenBack /\ A(i)!NotConsumedNotSpent
             /\ MaxFaults[i] < 3 => A(i)!ExchangedWhole
  <2>1. /\ ApprovalInv(i) /\ TokenInv(i)
        /\ MaxFaults[i] < 3 => ExchangeInv(i)
    BY <1>1 DEF ToolsInv
  <2>2. A(i)!GivenBack BY <2>1 DEF TokenInv, Holder, Past, A!GivenBack
  <2>3. A(i)!NotConsumedNotSpent BY <2>1 DEF ApprovalInv, ResumerInv, A!NotConsumedNotSpent
  <2>4. MaxFaults[i] < 3 => A(i)!ExchangedWhole
    BY <2>1 DEF ApprovalInv, A!TypeOK, ResumerInv, ExchangeInv, A!ExchangedWhole
  <2>5. QED BY <2>2, <2>3, <2>4
<1>2. ToolsInv => GivenBack BY <1>1 DEF GivenBack
<1>3. QED BY <1>2, ToolsInvariant, PTL

\* As long as no recorded result runs out, the callback starts once for a key,
\* whatever crashes, interruptions, late writes and lost leases do: a second
\* attempt needs an operator's receipt for the first one, or the tool's own word
\* that nothing happened.  (When results run out, a deletion that getState()
\* makes outside of the lock can take another attempt's marker with it.)  A call
\* that was interrupted, or ran out of time, before the tool ran leaves no
\* marker behind once its operation is over, even if its claim or its renewal
\* lands after the answer (cleanLateClaim, cleanLateStartedWrite); and no
\* renewal pushes the lease of a marker past its deadline (renewStarted).
THEOREM KeyHasOneEffect == Spec => []OneEffect
<1>1. ASSUME ToolsInv, NEW i \in Keys, instance = i
      PROVE  /\ K(i)!TypeOK /\ K(i)!InterruptedLeavesNothing
             /\ TTL[i] >= MaxNow[i] => K(i)!OneEffect
  <2>1. /\ KeyInv(i) /\ MarkerInv(i)
        /\ TTL[i] >= MaxNow[i] => EffectInv(i)
    BY <1>1 DEF ToolsInv
  <2>2. K(i)!TypeOK BY <2>1 DEF KeyInv
  <2>3. K(i)!InterruptedLeavesNothing
    BY <2>1 DEF MarkerInv, Mine, K!InterruptedLeavesNothing
  <2>4. TTL[i] >= MaxNow[i] => K(i)!OneEffect
    BY <2>1 DEF KeyInv, K!TypeOK, EffectInv, K!OneEffect, K!Retired, Owns
  <2>5. QED BY <2>2, <2>3, <2>4
<1>2. ToolsInv => OneEffect BY <1>1 DEF OneEffect
<1>3. QED BY <1>2, ToolsInvariant, PTL

\* Once an approval is revoked nobody passes with it.
LEMMA RevocationIsFinal ==
    ASSUME NEW i \in Approvals, ApprovalInv(i), TokenInv(i),
           A(i)!Next \/ UNCHANGED A(i)!vars, revoked
    PROVE  spent' = spent
<1> USE DEF A!resuming
<1>1. \A r \in Resumers[i] : pc[r] \notin {"admitted", "after", "issuing"}
  BY DEF TokenInv
<1>2. ASSUME NEW r \in Resumers[i], A(i)!ResumeStep(r) PROVE spent' = spent
  BY <1>1, <1>2 DEF A!ResumeStep, A!Resume, A!StateRead, A!Refuse, A!Admit, A!Reserve,
     A!Reserved, A!Commit, A!Committed, A!Withdraw, A!Start, A!Replay, A!PolicyAfter,
     A!Exchange, A!Rollback, A!Issue, A!IssueAnswered, A!IssueInterrupted, A!RevokeLate
<1>3. CASE \/ \E r \in Resumers[i] : A(i)!Abort(r) \/ A(i)!Stop(r)
           \/ A(i)!Revoke \/ A(i)!RestoreReads \/ A(i)!RestoreIssues \/ A(i)!Tick
           \/ UNCHANGED A(i)!vars
  BY <1>3 DEF A!Abort, A!Stop, A!Revoke, A!RestoreReads, A!RestoreIssues, A!Tick, A!vars
<1>4. QED BY <1>2, <1>3 DEF A!Next

\* The fence of completeStarted().
LEMMA SupersededStaysSilent ==
    ASSUME NEW i \in Keys, KeyInv(i), MarkerInv(i), K(i)!Next \/ UNCHANGED K(i)!vars
    PROVE  K(i)!SupersededIsSilent
<1>1. ASSUME NEW c \in Calls[i], finished'[c] # finished[c] PROVE c \notin settled
  <2>1. PICK d \in Calls[i] : K(i)!Complete(d)
    BY <1>1 DEF K!Next, K!CallStep, K!Read, K!Purge, K!Proceed, K!Claim, K!Replace, K!Admit,
       K!FirstRenewal, K!Interrupt, K!Clean, K!Renew, K!StartCallback, K!Finish,
       K!GiveUpCompletion, K!Abort, K!Crash, K!Tick, K!ledger, K!vars
  <2>2. c = d /\ K(i)!CanRenew(c, asked[c]) /\ op[c] = "complete"
    BY <1>1, <2>1 DEF K!Complete, KeyInv, K!TypeOK
  <2>3. Mine(c) BY <2>2, PresentType DEF K!CanRenew, K!Holds, Mine, KeyInv
  <2>4. QED BY <2>2, <2>3 DEF MarkerInv
<1>2. QED BY <1>1 DEF K!SupersededIsSilent

\* After a revocation that succeeded nobody passes any more, whoever held the
\* reservation when it came (revoke and commit of approval-binding.ts).  An
\* attempt that an operator had retried, or the tool cleared, records no result
\* any more, however late it ends (completeStarted and its fence).
THEOREM SettledStaysSettled == Spec => SettledIsFinal
<1>1. ASSUME ToolsInv, [Next]_vars
      PROVE  /\ \A i \in Approvals : instance = i => A(i)!RevokedIsFinal
             /\ \A i \in Keys : instance = i => K(i)!SupersededIsSilent
  <2>1. ASSUME NEW i \in Approvals, instance = i PROVE A(i)!RevokedIsFinal
    BY <1>1, <2>1, OnePickMoves, RevocationIsFinal DEF ToolsInv, A!RevokedIsFinal
  <2>2. ASSUME NEW i \in Keys, instance = i PROVE K(i)!SupersededIsSilent
    BY <1>1, <2>2, OnePickMoves, SupersededStaysSilent DEF ToolsInv
  <2>3. QED BY <2>1, <2>2
<1>2. QED BY <1>1, ToolsInvariant, PTL DEF Spec, SettledIsFinal
=============================================================================
