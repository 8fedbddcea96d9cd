----------------------- MODULE DirectChatWrites_proofs -----------------------
(***************************************************************************)
(* Proofs about the write coordinator, for any tabs, nonces, sends and     *)
(* breaks: a nonce is used once, a receipt finds its row and ends its      *)
(* draft.                                                                  *)
(***************************************************************************)
EXTENDS DirectChatWrites, TLAPS

(* The wallet is handed only nonces that are in the store. *)
SpentIsRetired ==
  \A s \in Sends : submitted[s] # NoNonce => submitted[s] \in retired

(* A tab that claimed a nonce owns it: it is in the store, no transaction  *)
(* carries it, and no other tab owns it.                                   *)
ClaimIsOwned ==
  \A t \in Tabs : step[t] = "claimed" =>
    /\ nonce[t] \in retired
    /\ \A s \in Sends : submitted[s] # nonce[t]
    /\ \A u \in Tabs \ {t} : step[u] = "claimed" => nonce[u] # nonce[t]

(* A nonce is drawn before it is claimed. *)
DrawnIsNonce ==
  \A t \in Tabs : step[t] \in {"claiming", "claimed"} => nonce[t] \in Nonces

(* A send has a row from ensure to its end while its runtime is current,   *)
(* and none before.                                                        *)
RowFollowsSend ==
  \A t \in Tabs :
    /\ live[t] /\ step[t] \notin {"idle", "ensuring"}
         => draft[t][sending[t]] = "pending"
    /\ step[t] = "ensuring" => draft[t][sending[t]] = "none"
    /\ \A s \in Sends : s > begun => draft[t][s] = "none"
    /\ sending[t] <= begun

(* A send is one tab's, whose alone its row is; nothing is said to have    *)
(* failed before it has ended.                                             *)
SendIsOneTabs ==
  \A t \in Tabs, s \in Sends : sending[t] = s =>
    /\ draft[t][s] # "failed"
    /\ \A u \in Tabs \ {t} : sending[u] # s /\ draft[u][s] = "none"

TypeInv == WriteTypeOK /\ DrawnIsNonce

NoncesKept == SpentIsRetired /\ ClaimIsOwned /\ NonceUsedOnce

RowsKept == RowFollowsSend /\ SendIsOneTabs /\ DraftSaysTheOutcome

NonceInv == TypeInv /\ NoncesKept

RowInv == TypeInv /\ RowsKept

-----------------------------------------------------------------------------
(* A send that fails leaves every other row as it is, and no row appears   *)
(* or goes.                                                                *)
FailedRows(t) ==
  /\ step' = [step EXCEPT ![t] = "idle"]
  /\ sending' = [sending EXCEPT ![t] = 0]
  /\ nonce' = [nonce EXCEPT ![t] = NoNonce]
  /\ sending[t] \in Sends
  /\ ended' = [ended EXCEPT ![sending[t]] = IF ScopeCurrent(t) THEN "refused" ELSE "unseen"]
  /\ draft' \in [Tabs -> [Sends -> Draft]] /\ shown' = shown
  /\ \A u \in Tabs, s \in Sends :
       /\ draft'[u][s] = "none" <=> draft[u][s] = "none"
       /\ u # t \/ s # sending[t] => draft'[u][s] = draft[u][s]
  /\ draft'[t][sending[t]] =
       IF ScopeCurrent(t) /\ draft[t][sending[t]] = "pending"
         THEN "failed" ELSE draft[t][sending[t]]

(* A send that fails does no more than that. *)
LEMMA SendFailsRows ==
  ASSUME WriteTypeOK, NEW t \in Tabs, step[t] # "idle", SendFails(t)
  PROVE  FailedRows(t)
<1>1. sending[t] \in Sends
  BY WriteAssumption DEF WriteTypeOK, Sends
<1>2. CASE ScopeCurrent(t)
  <2>1. draft' = [draft EXCEPT ![t][sending[t]] = IF @ = "pending" THEN "failed" ELSE @]
    BY <1>2 DEF SendFails
  <2>2. ended' = [ended EXCEPT ![sending[t]] = IF ScopeCurrent(t) THEN "refused" ELSE "unseen"]
    BY <1>2 DEF SendFails, Ends
  <2>3. QED BY <1>1, <1>2, <2>1, <2>2 DEF SendFails, Settle, WriteTypeOK, Draft, FailedRows
<1>3. CASE ~ScopeCurrent(t)
  <2>1. ended' = [ended EXCEPT ![sending[t]] = IF ScopeCurrent(t) THEN "refused" ELSE "unseen"]
    BY <1>3 DEF SendFails, Ends
  <2>2. QED BY <1>1, <1>3, <2>1 DEF SendFails, Settle, WriteTypeOK, FailedRows
<1>4. QED BY <1>2, <1>3

(* A receipt that finds a row leaves rows. *)
LEMMA ReceiptAppliedRows ==
  ASSUME WriteTypeOK, NEW t \in Tabs, NEW s \in Sends, ReceiptApplied(t, s)
  PROVE  /\ draft' \in [Tabs -> [Sends -> Draft]]
         /\ shown' \in [Tabs -> [Sends -> Finality]]
<1>1. CASE draft[t][s] = "none" /\ shown[t][s] = "none"
  BY <1>1 DEF ReceiptApplied, WriteTypeOK, rowVars
<1>2. CASE ~(draft[t][s] = "none" /\ shown[t][s] = "none")
  <2>1. /\ draft' = [draft EXCEPT ![t][s] = "none"]
        /\ shown' = [shown EXCEPT ![t][s] = IF @ = "finalized" THEN "finalized" ELSE "confirmed"]
    BY <1>2 DEF ReceiptApplied
  <2>2. QED BY <2>1 DEF WriteTypeOK, Draft, Finality
<1>3. QED BY <1>1, <1>2

(* The types in three parts: the sends, the rows, the rest. *)
SendTypes ==
  /\ step \in [Tabs -> Steps] /\ sending \in [Tabs -> 0..MaxSends]
  /\ nonce \in [Tabs -> Nonces \cup {NoNonce}]
  /\ \A t \in Tabs : sending[t] = 0 <=> step[t] = "idle"

RowTypes ==
  /\ draft \in [Tabs -> [Sends -> Draft]] /\ shown \in [Tabs -> [Sends -> Finality]]
  /\ ended \in [Sends -> Endings]

OtherTypes ==
  /\ retired \subseteq Nonces /\ mined \subseteq Sends
  /\ submitted \in [Sends -> Nonces \cup {NoNonce}]
  /\ begun \in 0..MaxSends /\ breaks \in 0..MaxBreaks
  /\ live \in [Tabs -> BOOLEAN] /\ open \in [Tabs -> BOOLEAN] /\ taken \in [Tabs -> BOOLEAN]

(* A send that ends, or goes on, keeps its types. *)
LEMMA SettleTypes ==
  ASSUME SendTypes, NEW t \in Tabs, Settle(t)
  PROVE  SendTypes'
BY WriteAssumption DEF SendTypes, Settle, Steps

(* The same for a send that goes on. *)
LEMMA AdvanceTypes ==
  ASSUME SendTypes, NEW t \in Tabs, step[t] # "idle", NEW to \in Steps \ {"idle"},
         Advance(t, to), nonce' \in [Tabs -> Nonces \cup {NoNonce}]
  PROVE  SendTypes'
BY WriteAssumption DEF SendTypes, Advance

(* Every step keeps the types of the sends. *)
LEMMA SendTypesStep ==
  ASSUME WriteTypeOK, [WriteNext]_writeVars
  PROVE  SendTypes'
<1>0. SendTypes
  BY DEF WriteTypeOK, SendTypes
<1> USE WriteAssumption, <1>0
<1>1. CASE UNCHANGED writeVars
  BY <1>1 DEF SendTypes, writeVars
<1>2. CASE Mine
  BY <1>2 DEF Mine, SendTypes
<1>3. ASSUME NEW t \in Tabs, Begin(t) PROVE SendTypes'
  BY <1>3 DEF Begin, WriteTypeOK, Steps, Sends, SendTypes
<1>4. ASSUME NEW t \in Tabs, Ensured(t) PROVE SendTypes'
  BY <1>4, SettleTypes, AdvanceTypes DEF Ensured, SendTypes, Steps
<1>5. ASSUME NEW t \in Tabs, EnsureFails(t) PROVE SendTypes'
  BY <1>5, SettleTypes DEF EnsureFails
<1>6. ASSUME NEW t \in Tabs, SendStarts(t) PROVE SendTypes'
  BY <1>6, SettleTypes, AdvanceTypes DEF SendStarts, SendFails, SendTypes, Steps
<1>7. ASSUME NEW t \in Tabs, Encrypt(t) PROVE SendTypes'
  BY <1>7, AdvanceTypes DEF Encrypt, SendTypes, Steps
<1>8. ASSUME NEW t \in Tabs, Claim(t) PROVE SendTypes'
  BY <1>8, SettleTypes, AdvanceTypes DEF Claim, SendFails, SendTypes, Steps
<1>9. ASSUME NEW t \in Tabs, Submit(t) PROVE SendTypes'
  BY <1>9, AdvanceTypes DEF Submit, SendTypes, Steps
<1>10. ASSUME NEW t \in Tabs, SendRejects(t) PROVE SendTypes'
  BY <1>10, SettleTypes DEF SendRejects, SendFails
<1>11. ASSUME NEW t \in Tabs, Receipt(t) PROVE SendTypes'
  BY <1>11, SettleTypes DEF Receipt
<1>12. ASSUME NEW t \in Tabs, HistoryPage(t) PROVE SendTypes'
  BY <1>12 DEF HistoryPage, SendTypes
<1>13. ASSUME NEW t \in Tabs, Replay(t) PROVE SendTypes'
  BY <1>13 DEF Replay, SendTypes
<1>14. ASSUME NEW t \in Tabs, Look(t) PROVE SendTypes'
  BY <1>14 DEF Look, SendTypes
<1>15. ASSUME NEW t \in Tabs, OtherMutation(t) PROVE SendTypes'
  BY <1>15 DEF OtherMutation, SendTypes
<1>16. ASSUME NEW t \in Tabs, Replace(t) PROVE SendTypes'
  BY <1>16 DEF Replace, SendTypes
<1>17. ASSUME NEW t \in Tabs, Reload(t) PROVE SendTypes'
  BY <1>17, SettleTypes DEF Reload
<1>18. QED
  BY <1>1, <1>2, <1>3, <1>4, <1>5, <1>6, <1>7, <1>8, <1>9, <1>10, <1>11, <1>12, <1>13, <1>14, <1>15, <1>16, <1>17 DEF WriteNext

(* Every step keeps the types of the rows. *)
LEMMA RowTypesStep ==
  ASSUME WriteTypeOK, [WriteNext]_writeVars
  PROVE  RowTypes'
<1>0. RowTypes
  BY DEF WriteTypeOK, RowTypes
<1> USE WriteAssumption, <1>0 DEF RowTypes, Endings, rowVars, writeVars
<1>1. CASE UNCHANGED writeVars
  BY <1>1
<1>2. CASE Mine
  BY <1>2 DEF Mine
<1>3. ASSUME NEW t \in Tabs, Begin(t) PROVE RowTypes'
  BY <1>3 DEF Begin
<1>4. ASSUME NEW t \in Tabs, Ensured(t) PROVE RowTypes'
  <2>1. CASE ScopeCurrent(t)
    <3>1. draft' = [draft EXCEPT ![t][sending[t]] = "pending"]
      BY <1>4, <2>1 DEF Ensured
    <3>2. QED BY <1>4, <3>1 DEF Ensured, Draft
  <2>2. CASE ~ScopeCurrent(t)
    BY <1>4, <2>2 DEF Ensured
  <2>3. QED BY <2>1, <2>2
<1>5. ASSUME NEW t \in Tabs, EnsureFails(t) PROVE RowTypes'
  BY <1>5 DEF EnsureFails, Settle
<1>6. ASSUME NEW t \in Tabs, SendStarts(t) PROVE RowTypes'
  <2>1. CASE SendFails(t)
    <3>1. FailedRows(t)
      BY <1>6, <2>1, SendFailsRows DEF SendStarts
    <3>2. QED BY <1>6, <2>1, <3>1 DEF FailedRows, SendStarts
  <2>2. CASE ~SendFails(t)
    BY <1>6, <2>2 DEF SendStarts, Advance
  <2>3. QED BY <2>1, <2>2
<1>7. ASSUME NEW t \in Tabs, Encrypt(t) PROVE RowTypes'
  BY <1>7 DEF Encrypt, Advance
<1>8. ASSUME NEW t \in Tabs, Claim(t) PROVE RowTypes'
  <2>1. CASE SendFails(t)
    <3>1. FailedRows(t)
      BY <1>8, <2>1, SendFailsRows DEF Claim
    <3>2. QED BY <1>8, <2>1, <3>1 DEF FailedRows, Claim
  <2>2. CASE ~SendFails(t)
    BY <1>8, <2>2 DEF Claim, Advance
  <2>3. QED BY <2>1, <2>2
<1>9. ASSUME NEW t \in Tabs, Submit(t) PROVE RowTypes'
  BY <1>9 DEF Submit, Advance
<1>10. ASSUME NEW t \in Tabs, SendRejects(t) PROVE RowTypes'
  <2>1. FailedRows(t)
    BY <1>10, SendFailsRows DEF SendRejects
  <2>2. QED BY <1>10, <2>1 DEF FailedRows, SendRejects
<1>11. ASSUME NEW t \in Tabs, Receipt(t) PROVE RowTypes'
  <2>1. sending[t] \in Sends
    BY <1>11 DEF Receipt, WriteTypeOK
  <2>2. ended' \in [Sends -> Endings]
    BY <1>11, <2>1 DEF Receipt, Ends
  <2>3. UNCHANGED rowVars \/ ReceiptApplied(t, sending[t])
    BY <1>11 DEF Receipt
  <2>4. QED BY <2>1, <2>2, <2>3, ReceiptAppliedRows
<1>12. ASSUME NEW t \in Tabs, HistoryPage(t) PROVE RowTypes'
  <2>1. PICK s \in mined : shown' = [shown EXCEPT ![t][s] = "finalized"]
    BY <1>12 DEF HistoryPage
  <2>2. s \in Sends
    BY DEF WriteTypeOK
  <2>3. QED BY <1>12, <2>1, <2>2 DEF HistoryPage, Finality
<1>13. ASSUME NEW t \in Tabs, Replay(t) PROVE RowTypes'
  BY <1>13 DEF Replay, Finality
<1>14. ASSUME NEW t \in Tabs, Look(t) PROVE RowTypes'
  BY <1>14 DEF Look
<1>15. ASSUME NEW t \in Tabs, OtherMutation(t) PROVE RowTypes'
  BY <1>15 DEF OtherMutation, Holding
<1>16. ASSUME NEW t \in Tabs, Replace(t) PROVE RowTypes'
  <2>1. [s \in Sends |-> "none"] \in [Sends -> Draft] \cap [Sends -> Finality]
    BY DEF Draft, Finality
  <2>2. CASE UNCHANGED rowVars
    BY <1>16, <2>2 DEF Replace
  <2>3. CASE /\ draft' = [draft EXCEPT ![t] = [s \in Sends |-> "none"]]
             /\ shown' = [shown EXCEPT ![t] = [s \in Sends |-> "none"]]
    BY <1>16, <2>1, <2>3 DEF Replace
  <2>4. QED BY <1>16, <2>2, <2>3 DEF Replace
<1>17. ASSUME NEW t \in Tabs, Reload(t) PROVE RowTypes'
  <2>1. [s \in Sends |-> "none"] \in [Sends -> Draft] \cap [Sends -> Finality]
    BY DEF Draft, Finality
  <2>2. QED BY <1>17, <2>1 DEF Reload
<1>18. QED
  BY <1>1, <1>2, <1>3, <1>4, <1>5, <1>6, <1>7, <1>8, <1>9, <1>10, <1>11, <1>12, <1>13, <1>14, <1>15, <1>16, <1>17 DEF WriteNext

(* Every step keeps the other types. *)
LEMMA OtherTypesStep ==
  ASSUME TypeInv, [WriteNext]_writeVars
  PROVE  OtherTypes'
<1>0. OtherTypes /\ WriteTypeOK
  BY DEF TypeInv, WriteTypeOK, OtherTypes
<1> USE WriteAssumption, <1>0 DEF OtherTypes, writeVars, chainVars, scopeVars
<1>1. CASE UNCHANGED writeVars
  BY <1>1
<1>2. CASE Mine
  BY <1>2 DEF Mine
<1>3. ASSUME NEW t \in Tabs, Begin(t) PROVE OtherTypes'
  BY <1>3 DEF Begin
<1>4. ASSUME NEW t \in Tabs, Ensured(t) PROVE OtherTypes'
  BY <1>4 DEF Ensured
<1>5. ASSUME NEW t \in Tabs, EnsureFails(t) PROVE OtherTypes'
  BY <1>5 DEF EnsureFails
<1>6. ASSUME NEW t \in Tabs, SendStarts(t) PROVE OtherTypes'
  BY <1>6 DEF SendStarts
<1>7. ASSUME NEW t \in Tabs, Encrypt(t) PROVE OtherTypes'
  BY <1>7 DEF Encrypt
<1>8. ASSUME NEW t \in Tabs, Claim(t) PROVE OtherTypes'
  BY <1>8 DEF Claim, TypeInv, DrawnIsNonce
<1>9. ASSUME NEW t \in Tabs, Submit(t) PROVE OtherTypes'
  BY <1>9 DEF Submit, WriteTypeOK
<1>10. ASSUME NEW t \in Tabs, SendRejects(t) PROVE OtherTypes'
  BY <1>10 DEF SendRejects
<1>11. ASSUME NEW t \in Tabs, Receipt(t) PROVE OtherTypes'
  BY <1>11 DEF Receipt
<1>12. ASSUME NEW t \in Tabs, HistoryPage(t) PROVE OtherTypes'
  BY <1>12 DEF HistoryPage
<1>13. ASSUME NEW t \in Tabs, Replay(t) PROVE OtherTypes'
  BY <1>13 DEF Replay
<1>14. ASSUME NEW t \in Tabs, Look(t) PROVE OtherTypes'
  BY <1>14 DEF Look
<1>15. ASSUME NEW t \in Tabs, OtherMutation(t) PROVE OtherTypes'
  BY <1>15 DEF OtherMutation
<1>16. ASSUME NEW t \in Tabs, Replace(t) PROVE OtherTypes'
  <2>1. open' \in [Tabs -> BOOLEAN] /\ live' \in [Tabs -> BOOLEAN] /\ taken' \in [Tabs -> BOOLEAN]
    BY <1>16 DEF Replace
  <2>2. breaks' \in 0..MaxBreaks
    BY <1>16 DEF Replace
  <2>3. QED BY <1>16, <2>1, <2>2 DEF Replace
<1>17. ASSUME NEW t \in Tabs, Reload(t) PROVE OtherTypes'
  BY <1>17 DEF Reload
<1>18. QED
  BY <1>1, <1>2, <1>3, <1>4, <1>5, <1>6, <1>7, <1>8, <1>9, <1>10, <1>11, <1>12, <1>13, <1>14, <1>15, <1>16, <1>17 DEF WriteNext

(* A nonce is still drawn before it is claimed. *)
LEMMA DrawnStep ==
  ASSUME WriteTypeOK, DrawnIsNonce, [WriteNext]_writeVars
  PROVE  DrawnIsNonce'
<1>0. SendTypes
  BY DEF WriteTypeOK, SendTypes
<1> USE WriteAssumption, <1>0 DEF DrawnIsNonce, SendTypes, Steps, writeVars
<1>1. CASE UNCHANGED writeVars
  BY <1>1
<1>2. CASE Mine
  BY <1>2 DEF Mine
<1>3. ASSUME NEW t \in Tabs, Begin(t) PROVE DrawnIsNonce'
  BY <1>3 DEF Begin
<1>4. ASSUME NEW t \in Tabs, Ensured(t) PROVE DrawnIsNonce'
  <2>1. CASE ScopeCurrent(t)
    BY <1>4, <2>1 DEF Ensured, Advance
  <2>2. CASE ~ScopeCurrent(t)
    BY <1>4, <2>2 DEF Ensured, Settle
  <2>3. QED BY <2>1, <2>2
<1>5. ASSUME NEW t \in Tabs, EnsureFails(t) PROVE DrawnIsNonce'
  BY <1>5 DEF EnsureFails, Settle
<1>6. ASSUME NEW t \in Tabs, SendStarts(t) PROVE DrawnIsNonce'
  <2>1. CASE SendFails(t)
    <3>1. FailedRows(t)
      BY <1>6, <2>1, SendFailsRows DEF SendStarts
    <3>2. QED BY <1>6, <2>1, <3>1 DEF FailedRows, SendStarts
  <2>2. CASE ~SendFails(t)
    BY <1>6, <2>2 DEF SendStarts, Advance
  <2>3. QED BY <2>1, <2>2
<1>7. ASSUME NEW t \in Tabs, Encrypt(t) PROVE DrawnIsNonce'
  BY <1>7 DEF Encrypt, Advance
<1>8. ASSUME NEW t \in Tabs, Claim(t) PROVE DrawnIsNonce'
  <2>1. CASE SendFails(t)
    <3>1. FailedRows(t)
      BY <1>8, <2>1, SendFailsRows DEF Claim
    <3>2. QED BY <1>8, <2>1, <3>1 DEF FailedRows, Claim
  <2>2. CASE ~SendFails(t)
    BY <1>8, <2>2 DEF Claim, Advance
  <2>3. QED BY <2>1, <2>2
<1>9. ASSUME NEW t \in Tabs, Submit(t) PROVE DrawnIsNonce'
  BY <1>9 DEF Submit, Advance
<1>10. ASSUME NEW t \in Tabs, SendRejects(t) PROVE DrawnIsNonce'
  <2>1. FailedRows(t)
    BY <1>10, SendFailsRows DEF SendRejects
  <2>2. QED BY <1>10, <2>1 DEF FailedRows, SendRejects
<1>11. ASSUME NEW t \in Tabs, Receipt(t) PROVE DrawnIsNonce'
  BY <1>11 DEF Receipt, ScopeCurrent, Settle, ReceiptApplied
<1>12. ASSUME NEW t \in Tabs, HistoryPage(t) PROVE DrawnIsNonce'
  BY <1>12 DEF HistoryPage
<1>13. ASSUME NEW t \in Tabs, Replay(t) PROVE DrawnIsNonce'
  BY <1>13 DEF Replay
<1>14. ASSUME NEW t \in Tabs, Look(t) PROVE DrawnIsNonce'
  BY <1>14 DEF Look
<1>15. ASSUME NEW t \in Tabs, OtherMutation(t) PROVE DrawnIsNonce'
  BY <1>15 DEF OtherMutation, Holding
<1>16. ASSUME NEW t \in Tabs, Replace(t) PROVE DrawnIsNonce'
  <2>1. CASE UNCHANGED rowVars
    BY <1>16, <2>1 DEF Replace
  <2>2. CASE draft' = [draft EXCEPT ![t] = [s \in Sends |-> "none"]]
    BY <1>16, <2>2 DEF Replace
  <2>3. QED BY <1>16, <2>1, <2>2 DEF Replace
<1>17. ASSUME NEW t \in Tabs, Reload(t) PROVE DrawnIsNonce'
  BY <1>17 DEF Reload, Settle
<1>18. QED
  BY <1>1, <1>2, <1>3, <1>4, <1>5, <1>6, <1>7, <1>8, <1>9, <1>10, <1>11, <1>12, <1>13, <1>14, <1>15, <1>16, <1>17 DEF WriteNext

(* Every step keeps the types. *)
LEMMA TypeStep ==
  ASSUME TypeInv, [WriteNext]_writeVars
  PROVE  TypeInv'
<1>1. WriteTypeOK'
  BY SendTypesStep, RowTypesStep, OtherTypesStep
     DEF TypeInv, WriteTypeOK, SendTypes, RowTypes, OtherTypes
<1>2. QED BY <1>1, DrawnStep DEF TypeInv

(* Every step keeps the nonces apart. *)
LEMMA NonceStep ==
  ASSUME NonceInv, [WriteNext]_writeVars
  PROVE  NonceInv'
<1>1. TypeInv /\ TypeInv'
  BY TypeStep DEF NonceInv
<1>2. NoncesKept'
  <2> USE WriteAssumption, <1>1
      DEF NonceInv, NoncesKept, TypeInv, WriteTypeOK, SpentIsRetired, ClaimIsOwned, DrawnIsNonce,
          NonceUsedOnce, Sends, Steps, writeVars, chainVars, scopeVars, rowVars
  <2>1. CASE UNCHANGED writeVars
    BY <2>1
  <2>2. CASE Mine
    BY <2>2 DEF Mine
  <2>3. ASSUME NEW t \in Tabs, Begin(t) PROVE NoncesKept'
    BY <2>3 DEF Begin
  <2>4. ASSUME NEW t \in Tabs, Ensured(t) PROVE NoncesKept'
    <3>1. CASE ScopeCurrent(t)
      BY <2>4, <3>1 DEF Ensured, Advance
    <3>2. CASE ~ScopeCurrent(t)
      <4>1. Settle(t) /\ UNCHANGED <<draft, retired, submitted, begun, live, open, shown, ended>>
        BY <2>4, <3>2 DEF Ensured
      <4>2. QED BY <2>4, <4>1 DEF Settle, Ensured
    <3>3. QED BY <3>1, <3>2
  <2>5. ASSUME NEW t \in Tabs, EnsureFails(t) PROVE NoncesKept'
    BY <2>5 DEF EnsureFails, Settle
  <2>6. ASSUME NEW t \in Tabs, SendStarts(t) PROVE NoncesKept'
    <3>1. CASE SendFails(t)
      <4>1. FailedRows(t)
        BY <2>6, <3>1, SendFailsRows DEF SendStarts
      <4>2. QED BY <2>6, <3>1, <4>1 DEF FailedRows, SendStarts
    <3>2. CASE ~SendFails(t)
      BY <2>6, <3>2 DEF SendStarts, Advance
    <3>3. QED BY <3>1, <3>2
  <2>7. ASSUME NEW t \in Tabs, Encrypt(t) PROVE NoncesKept'
    BY <2>7 DEF Encrypt, Advance
  <2>8. ASSUME NEW t \in Tabs, Claim(t) PROVE NoncesKept'
    <3>1. CASE SendFails(t)
      <4>1. FailedRows(t)
        BY <2>8, <3>1, SendFailsRows DEF Claim
      <4>2. QED BY <2>8, <3>1, <4>1 DEF FailedRows, Claim
    <3>2. CASE ~SendFails(t)
      <4>1. /\ nonce[t] \notin retired /\ retired' = retired \cup {nonce[t]}
            /\ step' = [step EXCEPT ![t] = "claimed"]
            /\ UNCHANGED <<nonce, submitted>>
        BY <2>8, <3>2 DEF Claim, Advance
      <4>2. SpentIsRetired' /\ NonceUsedOnce'
        BY <4>1
      <4>3. \A u \in Tabs \ {t} : step'[u] = step[u]
        BY <4>1
      <4>4. /\ \A s \in Sends : submitted[s] # nonce[t]
            /\ \A u \in Tabs : step[u] = "claimed" => nonce[u] # nonce[t]
        BY <4>1
      <4>5. ClaimIsOwned
        OBVIOUS
      <4>6. ClaimIsOwned'
        BY ONLY <4>1, <4>3, <4>4, <4>5 DEF ClaimIsOwned
      <4> QED  BY <4>2, <4>6
    <3>3. QED BY <3>1, <3>2
  <2>9. ASSUME NEW t \in Tabs, Submit(t) PROVE NoncesKept'
    BY <2>9 DEF Submit, Advance
  <2>10. ASSUME NEW t \in Tabs, SendRejects(t) PROVE NoncesKept'
    <3>1. FailedRows(t)
      BY <2>10, SendFailsRows DEF SendRejects
    <3>2. QED BY <2>10, <3>1 DEF FailedRows, SendRejects
  <2>11. ASSUME NEW t \in Tabs, Receipt(t) PROVE NoncesKept'
    <3>1. /\ step' = [step EXCEPT ![t] = "idle"] /\ nonce' = [nonce EXCEPT ![t] = NoNonce]
          /\ UNCHANGED <<retired, submitted>>
      BY <2>11 DEF Receipt, Settle
    <3>2. SpentIsRetired' /\ NonceUsedOnce'
      BY <3>1
    <3>3. \A u \in Tabs : step'[u] = "claimed" => step[u] = "claimed" /\ nonce'[u] = nonce[u]
      BY <3>1
    <3>4. ClaimIsOwned'
      <4>1. ClaimIsOwned
        OBVIOUS
      <4> QED  BY ONLY <3>1, <3>3, <4>1 DEF ClaimIsOwned
    <3> QED  BY <3>2, <3>4
  <2>12. ASSUME NEW t \in Tabs, HistoryPage(t) PROVE NoncesKept'
    BY <2>12 DEF HistoryPage
  <2>13. ASSUME NEW t \in Tabs, Replay(t) PROVE NoncesKept'
    BY <2>13 DEF Replay
  <2>14. ASSUME NEW t \in Tabs, Look(t) PROVE NoncesKept'
    BY <2>14 DEF Look
  <2>15. ASSUME NEW t \in Tabs, OtherMutation(t) PROVE NoncesKept'
    BY <2>15 DEF OtherMutation, Holding
  <2>16. ASSUME NEW t \in Tabs, Replace(t) PROVE NoncesKept'
    <3>1. CASE UNCHANGED rowVars
      BY <2>16, <3>1 DEF Replace
    <3>2. CASE draft' = [draft EXCEPT ![t] = [s \in Sends |-> "none"]]
      BY <2>16, <3>2 DEF Replace
    <3>3. QED BY <2>16, <3>1, <3>2 DEF Replace
  <2>17. ASSUME NEW t \in Tabs, Reload(t) PROVE NoncesKept'
    BY <2>17 DEF Reload, Settle
  <2>18. QED
    BY <2>1, <2>2, <2>3, <2>4, <2>5, <2>6, <2>7, <2>8, <2>9, <2>10, <2>11, <2>12, <2>13, <2>14, <2>15, <2>16, <2>17 DEF WriteNext
<1>3. QED BY <1>1, <1>2 DEF NonceInv

(* Every step keeps the rows with their sends. *)
LEMMA RowStep ==
  ASSUME RowInv, [WriteNext]_writeVars
  PROVE  RowInv'
<1>1. TypeInv /\ TypeInv'
  BY TypeStep DEF RowInv
<1>2. RowsKept'
  <2> USE WriteAssumption, <1>1
      DEF RowInv, RowsKept, TypeInv, WriteTypeOK, RowFollowsSend, SendIsOneTabs,
          DraftSaysTheOutcome, Sends, Steps, Draft, Endings,
          writeVars, chainVars, scopeVars, rowVars
  <2>1. CASE UNCHANGED writeVars
    BY <2>1
  <2>2. CASE Mine
    BY <2>2 DEF Mine
  <2>3. ASSUME NEW t \in Tabs, Begin(t) PROVE RowsKept'
    BY <2>3 DEF Begin
  <2>4. ASSUME NEW t \in Tabs, Ensured(t) PROVE RowsKept'
    <3>1. sending[t] \in Sends
      BY <2>4 DEF Ensured
    <3>2. CASE ScopeCurrent(t)
      <4>1. /\ draft' = [draft EXCEPT ![t][sending[t]] = "pending"]
            /\ step' = [step EXCEPT ![t] = "inserted"]
            /\ UNCHANGED <<sending, begun, live, ended>>
        BY <2>4, <3>2 DEF Ensured, Advance
      <4>2. /\ draft'[t][sending[t]] = "pending"
            /\ \A u \in Tabs, s \in Sends :
                 u # t \/ s # sending[t] => draft'[u][s] = draft[u][s]
        BY <3>1, <4>1
      <4>3. RowFollowsSend'
        BY <2>4, <3>1, <4>1, <4>2 DEF Ensured
      <4>4. SendIsOneTabs'
        BY <2>4, <3>1, <4>1, <4>2 DEF Ensured
      <4>5. DraftSaysTheOutcome'
        BY <2>4, <3>1, <4>1, <4>2 DEF Ensured
      <4>6. QED BY <4>3, <4>4, <4>5
    <3>3. CASE ~ScopeCurrent(t)
      <4>1. Settle(t) /\ UNCHANGED <<draft, begun, live, ended>>
        BY <2>4, <3>3 DEF Ensured
      <4>2. step' = [step EXCEPT ![t] = "idle"] /\ sending' = [sending EXCEPT ![t] = 0]
        BY <4>1 DEF Settle
      <4>3. RowFollowsSend'
        BY <2>4, <4>1, <4>2 DEF Ensured
      <4>4. DraftSaysTheOutcome'
        BY <2>4, <4>1, <4>2 DEF Ensured
      <4>5. SendIsOneTabs'
        BY <2>4, <4>1, <4>2 DEF Ensured
      <4>6. QED BY <4>3, <4>4, <4>5
    <3>4. QED BY <3>2, <3>3
  <2>5. ASSUME NEW t \in Tabs, EnsureFails(t) PROVE RowsKept'
    BY <2>5 DEF EnsureFails, Settle
  <2>6. ASSUME NEW t \in Tabs, SendStarts(t) PROVE RowsKept'
    <3>1. CASE SendFails(t)
      <4>1. FailedRows(t)
        BY <2>6, <3>1, SendFailsRows DEF SendStarts
      <4>2. QED BY <2>6, <3>1, <4>1 DEF FailedRows, SendStarts
    <3>2. CASE ~SendFails(t)
      BY <2>6, <3>2 DEF SendStarts, Advance
    <3>3. QED BY <3>1, <3>2
  <2>7. ASSUME NEW t \in Tabs, Encrypt(t) PROVE RowsKept'
    BY <2>7 DEF Encrypt, Advance
  <2>8. ASSUME NEW t \in Tabs, Claim(t) PROVE RowsKept'
    <3>1. CASE SendFails(t)
      <4>1. FailedRows(t)
        BY <2>8, <3>1, SendFailsRows DEF Claim
      <4>2. QED BY <2>8, <3>1, <4>1 DEF FailedRows, Claim
    <3>2. CASE ~SendFails(t)
      BY <2>8, <3>2 DEF Claim, Advance
    <3>3. QED BY <3>1, <3>2
  <2>9. ASSUME NEW t \in Tabs, Submit(t) PROVE RowsKept'
    BY <2>9 DEF Submit, Advance
  <2>10. ASSUME NEW t \in Tabs, SendRejects(t) PROVE RowsKept'
    <3>1. FailedRows(t)
      BY <2>10, SendFailsRows DEF SendRejects
    <3>2. QED BY <2>10, <3>1 DEF FailedRows, SendRejects
  <2>11. ASSUME NEW t \in Tabs, Receipt(t) PROVE RowsKept'
    <3>1. /\ step' = [step EXCEPT ![t] = "idle"] /\ sending' = [sending EXCEPT ![t] = 0]
          /\ sending[t] \in Sends /\ UNCHANGED <<begun, live>>
      BY <2>11 DEF Receipt, Settle
    <3>2. \/ draft' = [draft EXCEPT ![t][sending[t]] = "none"]
          \/ /\ draft' = draft
             /\ ended' = [ended EXCEPT ![sending[t]] = "disputed"]
          \/ /\ draft' = draft
             /\ ended' = [ended EXCEPT ![sending[t]] = "unseen"]
          \/ draft' = draft /\ draft[t][sending[t]] = "none"
      BY <2>11 DEF Receipt, Ends, ReceiptApplied
    <3>3. \A s \in Sends : s # sending[t] => ended'[s] = ended[s]
      <4>1. PICK how \in Endings : ended' = [ended EXCEPT ![sending[t]] = how]
        BY <2>11 DEF Receipt, Ends
      <4> QED  BY <4>1
    <3>4. /\ \A u \in Tabs, s \in Sends :
               /\ draft'[u][s] # "none" => draft'[u][s] = draft[u][s]
               /\ u # t \/ s # sending[t] => draft'[u][s] = draft[u][s]
          /\ draft'[t][sending[t]] # "none" => ended'[sending[t]] \in {"disputed", "unseen"}
      BY <3>1, <3>2
    <3>5. RowFollowsSend'
      BY <3>1, <3>4
    <3>6. SendIsOneTabs'
      BY <3>1, <3>4
    <3>7. ASSUME NEW u \in Tabs, NEW s \in Sends
          PROVE  /\ draft'[u][s] = "pending" =>
                      sending'[u] = s \/ ended'[s] \in {"unseen", "disputed"}
                 /\ draft'[u][s] = "failed" => ended'[s] = "refused"
      <4>1. CASE s # sending[t]
        BY <3>1, <3>3, <3>4, <4>1
      <4>2. CASE s = sending[t] /\ u = t
        BY <3>1, <3>4, <4>2
      <4>3. CASE s = sending[t] /\ u # t
        BY <3>1, <3>4, <4>3
      <4> QED  BY <4>1, <4>2, <4>3
    <3> QED  BY <3>5, <3>6, <3>7
  <2>12. ASSUME NEW t \in Tabs, HistoryPage(t) PROVE RowsKept'
    BY <2>12 DEF HistoryPage
  <2>13. ASSUME NEW t \in Tabs, Replay(t) PROVE RowsKept'
    BY <2>13 DEF Replay
  <2>14. ASSUME NEW t \in Tabs, Look(t) PROVE RowsKept'
    BY <2>14 DEF Look
  <2>15. ASSUME NEW t \in Tabs, OtherMutation(t) PROVE RowsKept'
    BY <2>15 DEF OtherMutation, Holding
  <2>16. ASSUME NEW t \in Tabs, Replace(t) PROVE RowsKept'
    <3>1. CASE UNCHANGED rowVars
      BY <2>16, <3>1 DEF Replace
    <3>2. CASE draft' = [draft EXCEPT ![t] = [s \in Sends |-> "none"]]
      BY <2>16, <3>2 DEF Replace
    <3>3. QED BY <2>16, <3>1, <3>2 DEF Replace
  <2>17. ASSUME NEW t \in Tabs, Reload(t) PROVE RowsKept'
    BY <2>17 DEF Reload, Settle
  <2>18. QED
    BY <2>1, <2>2, <2>3, <2>4, <2>5, <2>6, <2>7, <2>8, <2>9, <2>10, <2>11, <2>12, <2>13, <2>14, <2>15, <2>16, <2>17 DEF WriteNext
<1>3. QED BY <1>1, <1>2 DEF RowInv

(* Both invariants hold at first. *)
LEMMA InitInv == WriteInit => NonceInv /\ RowInv
BY WriteAssumption DEF WriteInit, NonceInv, RowInv, TypeInv, NoncesKept, RowsKept, WriteTypeOK, SpentIsRetired, ClaimIsOwned,
   DrawnIsNonce, NonceUsedOnce, RowFollowsSend, SendIsOneTabs, DraftSaysTheOutcome, Sends, Steps,
   Draft, Finality, Endings

(* Type correctness, and a tab has a send exactly while one is under way. *)
THEOREM WritesTypeCorrect == WriteSpec => []WriteTypeOK
<1>1. WriteInit => TypeInv BY InitInv DEF NonceInv
<1>2. TypeInv => WriteTypeOK BY DEF TypeInv
<1>3. QED BY <1>1, <1>2, TypeStep, PTL DEF WriteSpec

(* No two transactions handed to the wallet carry the same nonce, whatever *)
(* tabs, reloads and failed sends there are.                               *)
THEOREM NoncesAreUsedOnce == WriteSpec => []NonceUsedOnce
<1>1. NonceInv => NonceUsedOnce BY DEF NonceInv, NoncesKept
<1>2. QED BY <1>1, InitInv, NonceStep, PTL DEF WriteSpec

(* What a draft says is what became of its send: none is left of a send    *)
(* whose receipt was taken, and none of a refused one stays pending.       *)
THEOREM DraftsEnd == WriteSpec => []DraftSaysTheOutcome
<1>1. RowInv => DraftSaysTheOutcome BY DEF RowInv, RowsKept
<1>2. QED BY <1>1, InitInv, RowStep, PTL DEF WriteSpec

(* A receipt that arrives while the scope holds finds the row it replaces. *)
THEOREM ReceiptsFindRows == WriteSpec => []ReceiptFindsItsRow
<1>1. RowInv => ReceiptFindsItsRow
  BY DEF RowInv, RowsKept, RowFollowsSend, ReceiptFindsItsRow, ScopeCurrent
<1>2. QED BY <1>1, InitInv, RowStep, PTL DEF WriteSpec

(* A receipt that comes after the history page does not take back what the *)
(* page has shown as final, and nothing else shows a row as confirmed.     *)
LEMMA FinalityStep ==
  TypeInv /\ [WriteNext]_writeVars =>
    \A t \in Tabs, s \in Sends : shown[t][s] = "finalized" => shown'[t][s] # "confirmed"
<1> SUFFICES ASSUME TypeInv, [WriteNext]_writeVars, NEW t \in Tabs, NEW s \in Sends,
                    shown[t][s] = "finalized"
             PROVE  shown'[t][s] # "confirmed"
  OBVIOUS
<1>0. shown \in [Tabs -> [Sends -> Finality]]
  BY DEF TypeInv, WriteTypeOK
<1>1. ASSUME NEW u \in Tabs, Receipt(u) PROVE shown'[t][s] # "confirmed"
  <2>1. shown' = shown \/ ReceiptApplied(u, sending[u])
    BY <1>1 DEF Receipt, rowVars
  <2>2. ASSUME NEW r, ReceiptApplied(u, r) PROVE shown'[t][s] # "confirmed"
    BY <1>0, <2>2 DEF ReceiptApplied, rowVars
  <2> QED  BY <2>1, <2>2
<1>2. ASSUME NEW u \in Tabs, HistoryPage(u) PROVE shown'[t][s] # "confirmed"
  BY <1>0, <1>2 DEF HistoryPage
<1>3. ASSUME NEW u \in Tabs, Replay(u) \/ Replace(u) \/ Reload(u)
      PROVE  shown'[t][s] # "confirmed"
  <2>1. shown' = shown \/ shown' = [shown EXCEPT ![u] = [r \in Sends |-> "none"]]
    BY <1>3 DEF Replay, Replace, Reload, rowVars
  <2> QED  BY <1>0, <2>1
<1>4. ASSUME NEW u \in Tabs,
             \/ Begin(u) \/ Ensured(u) \/ EnsureFails(u) \/ SendStarts(u) \/ Encrypt(u)
             \/ Claim(u) \/ Submit(u) \/ SendRejects(u) \/ Look(u) \/ OtherMutation(u)
      PROVE  shown' = shown
  BY <1>4 DEF Begin, Ensured, EnsureFails, SendStarts, Encrypt, Claim, Submit, SendRejects,
              Look, OtherMutation, SendFails, rowVars
<1>5. ASSUME Mine \/ UNCHANGED writeVars PROVE shown' = shown
  BY <1>5 DEF Mine, rowVars, writeVars
<1> QED  BY <1>1, <1>2, <1>3, <1>4, <1>5 DEF WriteNext

(* What was shown as finalized is not shown as merely confirmed again,     *)
(* whichever of the receipt and the history page comes first.              *)
THEOREM FinalityStays == WriteSpec => FinalityIsKept
<1>1. WriteInit => TypeInv BY InitInv DEF NonceInv
<1>2. TypeInv /\ [WriteNext]_writeVars =>
        [\A t \in Tabs, s \in Sends :
           shown[t][s] = "finalized" => shown'[t][s] # "confirmed"]_writeVars
  BY FinalityStep
<1>3. QED BY <1>1, <1>2, TypeStep, PTL DEF WriteSpec, FinalityIsKept
=============================================================================
