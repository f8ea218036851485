--------------------------- MODULE AccountsProofs ---------------------------
(***************************************************************************)
(* Theorems about Accounts, for any number of accounts, addresses,         *)
(* identities, requests and mailed links.                                  *)
(***************************************************************************)
EXTENDS Accounts, TLAPS

-----------------------------------------------------------------------------
(* Types.                                                                  *)

AcctType == [is: {"new", "active", "deleted"}, email: Emails \union {Nil},
             pending: Emails \union {Nil}, password: BOOLEAN, tag: Discords \union {Nil}]
LinkType == [kind: {"none", "reset", "change"}, user: Users \union {Nil},
             to: Emails \union {Nil}, live: BOOLEAN]
DeskType == [task: {"idle", "ask", "issue", "confirm", "reset", "rename",
                    "join", "create", "link"},
             user: Users \union {Nil}, to: Emails \union {Nil},
             id: Identities \union {Nil}, link: Numbers \union {0}, old: SUBSET Numbers]

\* What a waiting request names exists: the account of all but a sign-up, and
\* the identity, address or link its task needs.
DesksNamed == \A k \in Desks :
    /\ desk[k].task \in {"ask", "issue", "confirm", "reset", "rename", "join"}
          => desk[k].user \in Users
    /\ desk[k].task \in {"rename", "join", "create"} => desk[k].id \in Identities
    /\ desk[k].task \in {"ask", "create"} => desk[k].to \in Emails
    /\ desk[k].task \in {"confirm", "reset"} => desk[k].link \in Numbers

\* A live link belongs to an account; a link to change an address has one.
LinksNamed == \A n \in Numbers :
    /\ links[n].live => links[n].user \in Users
    /\ links[n].live /\ links[n].kind = "change" => links[n].to \in Emails

Typed == TypeOK /\ DesksNamed /\ LinksNamed

LEMMA MarkedUsedType ==
    ASSUME TypeOK, NEW old \in SUBSET Numbers
    PROVE  /\ MarkedUsed(old) \in [Numbers -> LinkType]
           /\ \A n \in Numbers :
                /\ MarkedUsed(old)[n].kind = links[n].kind
                /\ MarkedUsed(old)[n].user = links[n].user
                /\ MarkedUsed(old)[n].to = links[n].to
                /\ MarkedUsed(old)[n].live <=> links[n].live /\ n \notin old
  <1>1. links \in [Numbers -> LinkType]
    BY DEF TypeOK, LinkType
  <1>2. ASSUME NEW n \in Numbers
        PROVE  /\ MarkedUsed(old)[n] \in LinkType
               /\ MarkedUsed(old)[n].kind = links[n].kind
               /\ MarkedUsed(old)[n].user = links[n].user
               /\ MarkedUsed(old)[n].to = links[n].to
               /\ MarkedUsed(old)[n].live <=> links[n].live /\ n \notin old
    <2>1. links[n] \in LinkType
      BY <1>1
    <2>2. CASE n \in old
      BY <2>1, <2>2 DEF MarkedUsed, LinkType
    <2>3. CASE n \notin old
      BY <2>1, <2>3 DEF MarkedUsed
    <2> QED BY <2>2, <2>3
  <1>3. MarkedUsed(old) = [n \in Numbers |-> MarkedUsed(old)[n]]
    BY DEF MarkedUsed
  <1>4. MarkedUsed(old) \in [Numbers -> LinkType]
    BY <1>2, <1>3
  <1> QED BY <1>2, <1>4

LEMMA IssuedType ==
    ASSUME TypeOK, NEW kind \in {"reset", "change"}, NEW u \in Users,
           NEW to \in Emails \union {Nil}, NEW old \in SUBSET Numbers,
           links' \in Issued(kind, u, to, old)
    PROVE  /\ links' \in [Numbers -> LinkType]
           /\ \E n \in Numbers :
                /\ links[n] = NotSent
                /\ links'[n] = [kind |-> kind, user |-> u, to |-> to, live |-> TRUE]
                /\ \A m \in Numbers \ {n} : links'[m] = MarkedUsed(old)[m]
  <1>1. PICK n \in Numbers :
          /\ links[n] = NotSent
          /\ links' = [MarkedUsed(old) EXCEPT ![n] =
                         [kind |-> kind, user |-> u, to |-> to, live |-> TRUE]]
    BY DEF Issued
  <1>2. MarkedUsed(old) \in [Numbers -> LinkType]
    BY MarkedUsedType
  <1> QED BY <1>1, <1>2 DEF LinkType


LEMMA InitTyped == Init => Typed
  BY DEF Init, Typed, TypeOK, DesksNamed, LinksNamed, NotMade, NotSent, Idle

\* A request comes to wait, or ends.
LEMMA DeskTyped ==
    ASSUME TypeOK, DesksNamed, NEW k \in Desks,
           \/ Ends(k)
           \/ UNCHANGED desk
           \/ \E req \in DeskType :
                /\ Waits(k, req)
                /\ req.task \in {"ask", "issue", "confirm", "reset", "rename", "join"}
                      => req.user \in Users
                /\ req.task \in {"rename", "join", "create"} => req.id \in Identities
                /\ req.task \in {"ask", "create"} => req.to \in Emails
                /\ req.task \in {"confirm", "reset"} => req.link \in Numbers
    PROVE  desk' \in [Desks -> DeskType] /\ DesksNamed'
  <1>1. desk \in [Desks -> DeskType]
    BY DEF TypeOK, DeskType
  <1>2. Idle \in DeskType /\ Idle.task = "idle"
    BY DEF Idle, DeskType
  <1>3. CASE Ends(k)
    BY <1>1, <1>2, <1>3 DEF Ends, DesksNamed
  <1>4. CASE UNCHANGED desk
    BY <1>1, <1>4 DEF DesksNamed
  <1>5. ASSUME NEW req \in DeskType, Waits(k, req),
               req.task \in {"ask", "issue", "confirm", "reset", "rename", "join"}
                  => req.user \in Users,
               req.task \in {"rename", "join", "create"} => req.id \in Identities,
               req.task \in {"ask", "create"} => req.to \in Emails,
               req.task \in {"confirm", "reset"} => req.link \in Numbers
        PROVE  desk' \in [Desks -> DeskType] /\ DesksNamed'
    BY <1>1, <1>5 DEF Waits, DesksNamed
  <1> QED BY <1>3, <1>4, <1>5

\* Links that are marked used stay well formed.
LEMMA MarkedLinksNamed ==
    ASSUME TypeOK, LinksNamed, NEW old \in SUBSET Numbers, links' = MarkedUsed(old)
    PROVE  links' \in [Numbers -> LinkType] /\ LinksNamed'
  BY MarkedUsedType DEF LinksNamed

LEMMA IssuedLinksNamed ==
    ASSUME TypeOK, LinksNamed, NEW kind \in {"reset", "change"}, NEW u \in Users,
           NEW to \in Emails \union {Nil}, kind = "change" => to \in Emails,
           NEW old \in SUBSET Numbers, links' \in Issued(kind, u, to, old)
    PROVE  links' \in [Numbers -> LinkType] /\ LinksNamed'
  <1>1. links' \in [Numbers -> LinkType]
    BY IssuedType
  <1>2. PICK n \in Numbers :
          /\ links'[n] = [kind |-> kind, user |-> u, to |-> to, live |-> TRUE]
          /\ \A m \in Numbers \ {n} : links'[m] = MarkedUsed(old)[m]
    BY IssuedType
  <1>3. ASSUME NEW m \in Numbers
        PROVE  /\ links'[m].live => links'[m].user \in Users
               /\ links'[m].live /\ links'[m].kind = "change" => links'[m].to \in Emails
    <2>1. CASE m = n
      BY <1>2, <2>1
    <2>2. CASE m # n
      BY <1>2, <2>2, MarkedUsedType DEF LinksNamed
    <2> QED BY <2>1, <2>2
  <1> QED BY <1>1, <1>3 DEF LinksNamed


LEMMA TypedStep == Typed /\ [Next]_vars => Typed'
  <1> SUFFICES ASSUME Typed, [Next]_vars PROVE Typed'
    OBVIOUS
  <1> USE DEF Typed
  <1>a. /\ acct \in [Users -> AcctType] /\ owner \in [Identities -> Users \union {Nil}]
        /\ links \in [Numbers -> LinkType] /\ asked \subseteq Users \X Providers
        /\ desk \in [Desks -> DeskType]
    BY DEF TypeOK, AcctType, LinkType, DeskType
  <1>b. ASSUME acct' \in [Users -> AcctType], owner' \in [Identities -> Users \union {Nil}],
               links' \in [Numbers -> LinkType], asked' \subseteq Users \X Providers,
               desk' \in [Desks -> DeskType], DesksNamed', LinksNamed'
        PROVE  Typed'
    BY <1>b DEF TypeOK, AcctType, LinkType, DeskType
  <1>c. ASSUME UNCHANGED links PROVE links' \in [Numbers -> LinkType] /\ LinksNamed'
    BY <1>a, <1>c DEF LinksNamed
  <1>d. ASSUME UNCHANGED desk PROVE desk' \in [Desks -> DeskType] /\ DesksNamed'
    BY <1>a, <1>d DEF DesksNamed
  <1>e. \A u \in Users, kind \in {"reset", "change"} : LiveLinks(kind, u) \subseteq Numbers
    BY DEF LiveLinks
  <1>f. NotMade \in AcctType
    BY DEF NotMade, AcctType
  <1>1. ASSUME NEW u \in Users, NEW e \in Emails, CreateSignup(u, e) PROVE Typed'
    <2>1. acct' \in [Users -> AcctType]
      BY <1>a, <1>f, <1>1 DEF CreateSignup, AcctType, NotMade
    <2> QED BY <1>a, <1>b, <1>c, <1>d, <1>1, <2>1 DEF CreateSignup
  <1>2. ASSUME NEW u \in Users, NEW e \in Emails, NEW typed \in BOOLEAN,
               UpdateAdminUser(u, e, typed)
        PROVE  Typed'
    <2>0. PICK pw \in BOOLEAN : acct' = [acct EXCEPT ![u].email = e, ![u].password = pw]
      <3> DEFINE pw == acct[u].password \/ typed
      <3>1. pw \in BOOLEAN
        OBVIOUS
      <3>2. acct' = [acct EXCEPT ![u].email = e, ![u].password = pw]
        BY <1>2 DEF UpdateAdminUser
      <3> HIDE DEF pw
      <3> QED BY <3>1, <3>2
    <2>1. acct' \in [Users -> AcctType]
      <3>1. [acct[u] EXCEPT !.email = e, !.password = pw] \in AcctType
        <4>1. [acct[u] EXCEPT !.email = e] \in AcctType
          BY <1>a DEF AcctType
        <4> QED BY <4>1 DEF AcctType
      <3>2. acct' = [acct EXCEPT ![u] = [acct[u] EXCEPT !.email = e, !.password = pw]]
        BY <1>a, <2>0
      <3> QED BY <1>a, <3>1, <3>2
    <2> QED BY <1>a, <1>b, <1>c, <1>d, <1>2, <2>1 DEF UpdateAdminUser
  <1>3. ASSUME NEW u \in Users, DeleteAdminUser(u) PROVE Typed'
    <2>1. acct' \in [Users -> AcctType]
      BY <1>a, <1>f, <1>3 DEF DeleteAdminUser, AcctType, NotMade
    <2>2. links' = MarkedUsed({n \in Numbers : links[n].user = u})
      BY <1>3 DEF DeleteAdminUser, MarkedUsed
    <2>3. links' \in [Numbers -> LinkType] /\ LinksNamed'
      BY <2>2, MarkedLinksNamed
    <2>4. /\ owner' \in [Identities -> Users \union {Nil}] /\ asked' \subseteq Users \X Providers
          /\ UNCHANGED desk
      BY <1>a, <1>3 DEF DeleteAdminUser
    <2> QED BY <1>b, <1>d, <2>1, <2>3, <2>4
  <1>4. ASSUME NEW n \in Numbers, ExpireLink(n) PROVE Typed'
    <2>1. links' \in [Numbers -> LinkType] /\ LinksNamed'
      BY <1>4, MarkedLinksNamed DEF ExpireLink
    <2> QED BY <1>a, <1>b, <1>d, <1>4, <2>1 DEF ExpireLink
  <1>5. ASSUME NEW k \in Desks, DropDesk(k) PROVE Typed'
    BY <1>a, <1>b, <1>c, <1>5, DeskTyped DEF DropDesk
  <1>6. ASSUME NEW k \in Desks, NEW u \in Users, RequestPasswordReset(k, u) PROVE Typed'
    <2> DEFINE req == [Idle EXCEPT !.task = "issue", !.user = u, !.old = LiveLinks("reset", u)]
    <2>1. req \in DeskType /\ req.user = u /\ req.task = "issue"
      BY <1>e DEF Idle, DeskType
    <2>2. Waits(k, req)
      BY <1>6 DEF RequestPasswordReset
    <2>3. desk' \in [Desks -> DeskType] /\ DesksNamed'
      <3> HIDE DEF req
      <3> QED BY <2>1, <2>2, DeskTyped
    <2> QED BY <1>a, <1>b, <1>c, <1>6, <2>3 DEF RequestPasswordReset
  <1>7. ASSUME NEW k \in Desks, ResetIssued(k) PROVE Typed'
    <2>1. desk[k].user \in Users /\ desk[k].old \in SUBSET Numbers
      BY <1>a, <1>7 DEF ResetIssued, DesksNamed, DeskType
    <2>2. links' \in [Numbers -> LinkType] /\ LinksNamed'
      BY <1>7, <2>1, IssuedLinksNamed DEF ResetIssued
    <2>3. desk' \in [Desks -> DeskType] /\ DesksNamed'
      BY <1>7, DeskTyped DEF ResetIssued
    <2> QED BY <1>a, <1>b, <1>7, <2>2, <2>3 DEF ResetIssued
  <1>8. ASSUME NEW k \in Desks, NEW n \in Numbers, OpensReset(k, n) PROVE Typed'
    <2> DEFINE req == [Idle EXCEPT !.task = "reset", !.user = links[n].user, !.link = n]
    <2>0. links[n].user \in Users
      BY <1>8 DEF OpensReset, LinksNamed
    <2>1. req \in DeskType /\ req.user \in Users /\ req.task = "reset" /\ req.link \in Numbers
      BY <2>0 DEF Idle, DeskType
    <2>2. Waits(k, req)
      BY <1>8 DEF OpensReset
    <2>3. desk' \in [Desks -> DeskType] /\ DesksNamed'
      <3> HIDE DEF req
      <3> QED BY <2>1, <2>2, DeskTyped
    <2> QED BY <1>a, <1>b, <1>c, <1>8, <2>3 DEF OpensReset
  <1>9. ASSUME NEW k \in Desks, ResetPassword(k) PROVE Typed'
    <2>1. desk[k].user \in Users
      BY <1>a, <1>9 DEF ResetPassword, DesksNamed
    <2>2. acct' \in [Users -> AcctType]
      BY <1>a, <1>9, <2>1 DEF ResetPassword, AcctType
    <2>3. links' \in [Numbers -> LinkType] /\ LinksNamed'
      BY <1>e, <1>9, <2>1, MarkedLinksNamed DEF ResetPassword
    <2>4. desk' \in [Desks -> DeskType] /\ DesksNamed'
      BY <1>9, DeskTyped DEF ResetPassword
    <2> QED BY <1>a, <1>b, <1>9, <2>2, <2>3, <2>4 DEF ResetPassword
  <1>10. ASSUME NEW k \in Desks, NEW u \in Users, NEW e \in Emails, AsksEmailChange(k, u, e)
         PROVE  Typed'
    <2> DEFINE req == [Idle EXCEPT !.task = "ask", !.user = u, !.to = e]
    <2>1. req \in DeskType /\ req.user = u /\ req.task = "ask" /\ req.to = e
      BY DEF Idle, DeskType
    <2>2. Waits(k, req)
      BY <1>10 DEF AsksEmailChange
    <2>3. desk' \in [Desks -> DeskType] /\ DesksNamed'
      <3> HIDE DEF req
      <3> QED BY <2>1, <2>2, DeskTyped
    <2> QED BY <1>a, <1>b, <1>c, <1>10, <2>3 DEF AsksEmailChange
  <1>11. ASSUME NEW k \in Desks, RequestEmailChange(k) PROVE Typed'
    <2>1. desk[k].user \in Users /\ desk[k].to \in Emails
      BY <1>a, <1>11 DEF RequestEmailChange, DesksNamed
    <2>2. acct' \in [Users -> AcctType]
      BY <1>a, <1>11, <2>1 DEF RequestEmailChange, AcctType
    <2>3. links' \in [Numbers -> LinkType] /\ LinksNamed'
      BY <1>e, <1>11, <2>1, IssuedLinksNamed DEF RequestEmailChange
    <2>4. desk' \in [Desks -> DeskType] /\ DesksNamed'
      BY <1>11, DeskTyped DEF RequestEmailChange
    <2> QED BY <1>a, <1>b, <1>11, <2>2, <2>3, <2>4 DEF RequestEmailChange
  <1>12. ASSUME NEW k \in Desks, NEW n \in Numbers, OpensChange(k, n) PROVE Typed'
    <2> DEFINE req == [Idle EXCEPT !.task = "confirm", !.user = links[n].user,
                                   !.to = links[n].to, !.link = n]
    <2>0. links[n].user \in Users /\ links[n].to \in Emails
      BY <1>12 DEF OpensChange, LinksNamed
    <2>1. req \in DeskType /\ req.user \in Users /\ req.task = "confirm" /\ req.link \in Numbers
      BY <2>0 DEF Idle, DeskType
    <2>2. Waits(k, req)
      BY <1>12 DEF OpensChange
    <2>3. desk' \in [Desks -> DeskType] /\ DesksNamed'
      <3> HIDE DEF req
      <3> QED BY <2>1, <2>2, DeskTyped
    <2> QED BY <1>a, <1>b, <1>c, <1>12, <2>3 DEF OpensChange
  <1>13. ASSUME NEW k \in Desks, ConfirmEmailChange(k) PROVE Typed'
    <2>1. desk[k].user \in Users /\ desk[k].to \in Emails \union {Nil}
      BY <1>a, <1>13 DEF ConfirmEmailChange, DesksNamed, DeskType
    <2>2. acct' \in [Users -> AcctType]
      BY <1>a, <1>13, <2>1 DEF ConfirmEmailChange, AcctType
    <2>3. links' \in [Numbers -> LinkType] /\ LinksNamed'
      BY <1>e, <1>13, <2>1, MarkedLinksNamed DEF ConfirmEmailChange
    <2>4. desk' \in [Desks -> DeskType] /\ DesksNamed'
      BY <1>13, DeskTyped DEF ConfirmEmailChange
    <2> QED BY <1>a, <1>b, <1>13, <2>2, <2>3, <2>4 DEF ConfirmEmailChange
  <1>14. ASSUME NEW k \in Desks, NEW i \in Identities, NEW e \in Emails, SignsIn(k, i, e)
         PROVE  Typed'
    <2>1. PICK req : /\ Waits(k, req)
                     /\ \/ /\ owner[i] # Nil
                           /\ req = [Idle EXCEPT !.task = "rename", !.user = owner[i], !.id = i]
                        \/ \E u \in Users :
                             req = [Idle EXCEPT !.task = "join", !.user = u, !.id = i]
                        \/ req = [Idle EXCEPT !.task = "create", !.id = i, !.to = e]
      BY <1>14 DEF SignsIn
    <2>2. /\ req \in DeskType
          /\ (req.task \in {"rename", "join"} /\ req.user \in Users) \/ req.task = "create"
          /\ req.id = i /\ (req.task = "create" => req.to = e)
      BY <1>a, <2>1 DEF Idle, DeskType
    <2>3. desk' \in [Desks -> DeskType] /\ DesksNamed'
      BY <2>1, <2>2, DeskTyped
    <2> QED BY <1>a, <1>b, <1>c, <1>14, <2>3 DEF SignsIn
  <1>15. ASSUME NEW a \in AcctType, NEW i \in Identities PROVE Tagged(a, i) \in AcctType
    BY <1>15 DEF Tagged, AcctType
  <1>16. ASSUME NEW k \in Desks, RenamesTag(k) \/ JoinsIdentity(k) PROVE Typed'
    <2>1. desk[k].user \in Users /\ desk[k].id \in Identities
      BY <1>a, <1>16 DEF RenamesTag, JoinsIdentity, DesksNamed
    <2>2. Tagged(acct[desk[k].user], desk[k].id) \in AcctType
      BY <1>a, <1>15, <2>1
    <2>3. acct' \in [Users -> AcctType]
      BY <1>a, <1>16, <2>1, <2>2 DEF RenamesTag, JoinsIdentity
    <2>4. desk' \in [Desks -> DeskType] /\ DesksNamed'
      BY <1>16, DeskTyped DEF RenamesTag, JoinsIdentity
    <2> QED BY <1>a, <1>b, <1>c, <1>16, <2>1, <2>3, <2>4 DEF RenamesTag, JoinsIdentity
  <1>17. ASSUME NEW k \in Desks, NEW u \in Users, CreateOAuthUser(k, u) PROVE Typed'
    <2>1. desk[k].to \in Emails /\ desk[k].id \in Identities
      BY <1>a, <1>17 DEF CreateOAuthUser, DesksNamed
    <2>2. [NotMade EXCEPT !.is = "active", !.email = desk[k].to] \in AcctType
      BY <2>1 DEF NotMade, AcctType
    <2>3. acct' \in [Users -> AcctType]
      BY <1>a, <1>15, <1>17, <2>1, <2>2 DEF CreateOAuthUser
    <2>4. desk' \in [Desks -> DeskType] /\ DesksNamed'
      BY <1>17, DeskTyped DEF CreateOAuthUser
    <2> QED BY <1>a, <1>b, <1>c, <1>17, <2>1, <2>3, <2>4 DEF CreateOAuthUser
  <1>18. ASSUME NEW u \in Users, NEW p \in Providers, AsksToLink(u, p) PROVE Typed'
    BY <1>a, <1>b, <1>c, <1>d, <1>18 DEF AsksToLink
  <1>19. ASSUME NEW k \in Desks, NEW u \in Users, NEW i \in Identities, ClaimsLink(k, u, i)
         PROVE  Typed'
    <2>1. CASE UNCHANGED desk
      BY <1>a, <1>b, <1>c, <1>d, <1>19, <2>1 DEF ClaimsLink
    <2>2. CASE \E t \in {"join", "rename"} :
                 Waits(k, [Idle EXCEPT !.task = t, !.user = u, !.id = i])
      <3>1. PICK t \in {"join", "rename"} :
                 Waits(k, [Idle EXCEPT !.task = t, !.user = u, !.id = i])
        BY <2>2
      <3> DEFINE req == [Idle EXCEPT !.task = t, !.user = u, !.id = i]
      <3>2. req \in DeskType /\ req.user = u /\ req.id = i /\ req.task = t
        BY DEF Idle, DeskType
      <3>3. desk' \in [Desks -> DeskType] /\ DesksNamed'
        <4> HIDE DEF req
        <4>1. Waits(k, req)
          BY <3>1 DEF req
        <4> QED BY <3>2, <4>1, DeskTyped
      <3> QED BY <1>a, <1>b, <1>c, <1>19, <3>3 DEF ClaimsLink
    <2> QED BY <1>19, <2>1, <2>2 DEF ClaimsLink
  <1>20. ASSUME NEW u \in Users, NEW p \in Providers, UnlinkOAuthProvider(u, p) PROVE Typed'
    <2>1. acct' \in [Users -> AcctType]
      BY <1>a, <1>20 DEF UnlinkOAuthProvider, AcctType
    <2> QED BY <1>a, <1>b, <1>c, <1>d, <1>20, <2>1 DEF UnlinkOAuthProvider
  <1>21. CASE UNCHANGED vars
    BY <1>a, <1>b, <1>c, <1>d, <1>21 DEF vars
  <1> QED
    BY <1>1, <1>2, <1>3, <1>4, <1>5, <1>6, <1>7, <1>8, <1>9, <1>10, <1>11, <1>12, <1>13, <1>14,
       <1>16, <1>17, <1>18, <1>19, <1>20, <1>21 DEF Next

\* The rows stay what the schema and the handlers say, however requests interleave.
THEOREM TypesHold == Spec => []TypeOK
  <1>1. Typed => TypeOK
    BY DEF Typed
  <1> QED BY InitTyped, TypedStep, <1>1, PTL DEF Spec


-----------------------------------------------------------------------------
(* Signing in.                                                             *)

\* Every handler that takes a password or an identity away leaves another.
LEMMA WayInStep == Typed /\ EveryoneCanSignIn /\ [Next]_vars => EveryoneCanSignIn'
  <1> SUFFICES ASSUME Typed, EveryoneCanSignIn, [Next]_vars PROVE EveryoneCanSignIn'
    OBVIOUS
  <1>a. /\ acct \in [Users -> AcctType] /\ owner \in [Identities -> Users \union {Nil}]
        /\ DesksNamed
    BY DEF Typed, TypeOK, AcctType
  <1>b. \A u \in Users : Active(u) => acct[u].password \/ \E i \in Identities : owner[i] = u
    BY DEF EveryoneCanSignIn, Linked
  <1>c. ASSUME \A u \in Users :
                 acct'[u].is = "active" =>
                    acct'[u].password \/ \E i \in Identities : owner'[i] = u
        PROVE  EveryoneCanSignIn'
    BY <1>c DEF EveryoneCanSignIn, Linked, Active
  <1>d. ASSUME UNCHANGED <<acct, owner>> PROVE EveryoneCanSignIn'
    BY <1>b, <1>c, <1>d DEF Active
  <1>1. ASSUME NEW u \in Users, NEW e \in Emails, CreateSignup(u, e) PROVE EveryoneCanSignIn'
    BY <1>a, <1>b, <1>c, <1>1 DEF CreateSignup, Active, NotMade
  <1>2. ASSUME NEW u \in Users, NEW e \in Emails, NEW typed \in BOOLEAN,
               UpdateAdminUser(u, e, typed)
        PROVE  EveryoneCanSignIn'
    <2>1. ASSUME NEW v \in Users, acct'[v].is = "active"
          PROVE  Active(v) /\ (acct[v].password => acct'[v].password)
      BY <1>a, <1>2, <2>1 DEF UpdateAdminUser, AcctType, Active
    <2> QED BY <1>b, <1>c, <1>2, <2>1 DEF UpdateAdminUser
  <1>3. ASSUME NEW u \in Users, DeleteAdminUser(u) PROVE EveryoneCanSignIn'
    BY <1>a, <1>b, <1>c, <1>3 DEF DeleteAdminUser, Active, NotMade
  <1>4. ASSUME NEW u \in Users, acct' = [acct EXCEPT ![u].password = TRUE], UNCHANGED owner
        PROVE  EveryoneCanSignIn'
    BY <1>a, <1>b, <1>c, <1>4 DEF Active, AcctType
  <1>5. ASSUME NEW u \in Users, NEW e,
               \/ acct' = [acct EXCEPT ![u].pending = e]
               \/ acct' = [acct EXCEPT ![u].email = e, ![u].pending = Nil],
               UNCHANGED owner
        PROVE  EveryoneCanSignIn'
    BY <1>a, <1>b, <1>c, <1>5 DEF Active, AcctType
  <1>6. ASSUME NEW u \in Users, NEW i \in Identities, acct' = [acct EXCEPT ![u] = Tagged(@, i)],
               \/ UNCHANGED owner
               \/ Unlinked(i) /\ owner' = [owner EXCEPT ![i] = u]
        PROVE  EveryoneCanSignIn'
    <2>1. \A v \in Users : acct'[v].is = acct[v].is /\ acct'[v].password = acct[v].password
      BY <1>a, <1>6 DEF Tagged, AcctType
    <2>2. ASSUME NEW v \in Users, NEW j \in Identities, owner[j] = v PROVE owner'[j] = v
      <3>1. Nil \notin Users
        BY AccountsAssumption
      <3> QED BY <1>a, <1>6, <2>2, <3>1 DEF Unlinked
    <2>3. ASSUME NEW v \in Users, acct'[v].is = "active"
          PROVE  acct'[v].password \/ \E j \in Identities : owner'[j] = v
      BY <1>b, <2>1, <2>2, <2>3 DEF Active
    <2> QED BY <1>c, <2>3
  <1>7. ASSUME NEW k \in Desks, NEW u \in Users, CreateOAuthUser(k, u) PROVE EveryoneCanSignIn'
    <2>1. desk[k].id \in Identities
      BY <1>a, <1>7 DEF CreateOAuthUser, DesksNamed
    <2>2. owner'[desk[k].id] = u
      BY <1>a, <1>7, <2>1 DEF CreateOAuthUser
    <2>3. \A v \in Users \ {u} :
             /\ acct'[v] = acct[v]
             /\ \A j \in Identities : owner[j] = v => owner'[j] = v
      <3>1. Nil \notin Users
        BY AccountsAssumption
      <3> QED BY <1>a, <1>7, <2>1, <3>1 DEF CreateOAuthUser, Unlinked
    <2> QED BY <1>b, <1>c, <2>1, <2>2, <2>3 DEF Active
  <1>8. ASSUME NEW u \in Users, NEW p \in Providers, UnlinkOAuthProvider(u, p)
        PROVE  EveryoneCanSignIn'
    <2>1. \A v \in Users : acct'[v].is = acct[v].is /\ acct'[v].password = acct[v].password
      BY <1>a, <1>8 DEF UnlinkOAuthProvider, AcctType
    <2>2. ASSUME NEW v \in Users \ {u}, NEW j \in Identities, owner[j] = v PROVE owner'[j] = v
      BY <1>a, <1>8, <2>2 DEF UnlinkOAuthProvider
    <2>3. acct[u].password \/ \E j \in Identities : owner[j] = u /\ j \notin p
      BY <1>8 DEF UnlinkOAuthProvider, LeavesAWayIn, Linked
    <2>4. acct[u].password \/ \E j \in Identities : owner'[j] = u
      BY <1>a, <1>8, <2>3 DEF UnlinkOAuthProvider
    <2>5. ASSUME NEW v \in Users, acct'[v].is = "active"
          PROVE  acct'[v].password \/ \E j \in Identities : owner'[j] = v
      <3>1. CASE v = u
        BY <2>1, <2>4, <3>1
      <3>2. CASE v # u
        BY <1>b, <2>1, <2>2, <2>5, <3>2 DEF Active
      <3> QED BY <3>1, <3>2
    <2> QED BY <1>c, <2>5
  <1>9. ASSUME NEW k \in Desks,
               \/ ResetPassword(k) \/ RequestEmailChange(k) \/ ConfirmEmailChange(k)
               \/ RenamesTag(k) \/ JoinsIdentity(k)
        PROVE  EveryoneCanSignIn'
    <2>1. desk[k].user \in Users
      BY <1>a, <1>9 DEF DesksNamed, ResetPassword, RequestEmailChange, ConfirmEmailChange,
                        RenamesTag, JoinsIdentity
    <2>2. CASE ResetPassword(k)
      BY <1>4, <2>1, <2>2 DEF ResetPassword
    <2>3. CASE RequestEmailChange(k) \/ ConfirmEmailChange(k)
      BY <1>5, <2>1, <2>3 DEF RequestEmailChange, ConfirmEmailChange
    <2>4. CASE RenamesTag(k) \/ JoinsIdentity(k)
      <3>1. desk[k].id \in Identities
        BY <1>a, <2>4 DEF DesksNamed, RenamesTag, JoinsIdentity
      <3> QED BY <1>6, <2>1, <2>4, <3>1 DEF RenamesTag, JoinsIdentity
    <2> QED BY <1>9, <2>2, <2>3, <2>4
  <1>10. CASE \/ \E n \in Numbers : ExpireLink(n)
              \/ \E u \in Users, p \in Providers : AsksToLink(u, p)
              \/ \E k \in Desks :
                   \/ DropDesk(k) \/ ResetIssued(k)
                   \/ \E u \in Users : RequestPasswordReset(k, u)
                   \/ \E u \in Users, e \in Emails : AsksEmailChange(k, u, e)
                   \/ \E u \in Users, i \in Identities : ClaimsLink(k, u, i)
                   \/ \E n \in Numbers : OpensReset(k, n) \/ OpensChange(k, n)
                   \/ \E i \in Identities, e \in Emails : SignsIn(k, i, e)
              \/ UNCHANGED vars
    <2>1. UNCHANGED <<acct, owner>>
      BY <1>10 DEF ExpireLink, AsksToLink, DropDesk, ResetIssued, RequestPasswordReset,
                   AsksEmailChange, ClaimsLink, OpensReset, OpensChange, SignsIn, vars
    <2> QED BY <1>d, <2>1
  <1> QED BY <1>1, <1>2, <1>3, <1>7, <1>8, <1>9, <1>10 DEF Next

\* However unlinking races unlinking, signing in, linking and staff edits, every
\* account keeps a password or an identity to sign in with.
THEOREM EveryoneSignsIn == Spec => []EveryoneCanSignIn
  <1>1. Init => EveryoneCanSignIn
    BY DEF Init, EveryoneCanSignIn, Active, NotMade
  <1> QED BY InitTyped, TypedStep, WayInStep, <1>1, PTL DEF Spec

-----------------------------------------------------------------------------
(* Changing the address.                                                   *)

\* A live link leads to the address its account last asked for, and a click that
\* waits carries what its link says.
LinksCurrent ==
    /\ \A n \in Numbers : links[n].live /\ links[n].kind = "change" =>
          acct[links[n].user].pending = links[n].to
    /\ \A k \in Desks : desk[k].task = "confirm" =>
          /\ links[desk[k].link].kind = "change"
          /\ links[desk[k].link].user = desk[k].user
          /\ links[desk[k].link].to = desk[k].to


\* A link that was mailed keeps its account and address and is not revived.
LinksKept == \A n \in Numbers : links[n].kind # "none" =>
    /\ links'[n].kind = links[n].kind
    /\ links'[n].user = links[n].user
    /\ links'[n].to = links[n].to
    /\ links'[n].live => links[n].live

LEMMA MarkedLinksKept ==
    ASSUME TypeOK, NEW old \in SUBSET Numbers, links' = MarkedUsed(old)
    PROVE  LinksKept /\ \A n \in Numbers : links'[n].live => links[n].live /\ n \notin old
  BY MarkedUsedType DEF LinksKept

LEMMA IssuedLinksKept ==
    ASSUME TypeOK, NEW kind \in {"reset", "change"}, NEW u \in Users,
           NEW to \in Emails \union {Nil}, NEW old \in SUBSET Numbers,
           links' \in Issued(kind, u, to, old)
    PROVE  /\ LinksKept
           /\ \A n \in Numbers : links'[n].live =>
                 \/ links'[n] = [kind |-> kind, user |-> u, to |-> to, live |-> TRUE]
                 \/ /\ links[n].live /\ n \notin old
                    /\ links'[n].kind = links[n].kind
                    /\ links'[n].user = links[n].user
                    /\ links'[n].to = links[n].to
  <1>1. PICK n \in Numbers :
          /\ links[n] = NotSent
          /\ links'[n] = [kind |-> kind, user |-> u, to |-> to, live |-> TRUE]
          /\ \A m \in Numbers \ {n} : links'[m] = MarkedUsed(old)[m]
    BY IssuedType
  <1>2. links[n].kind = "none"
    BY <1>1 DEF NotSent
  <1> QED BY <1>1, <1>2, MarkedUsedType DEF LinksKept

LEMMA LinksKeptStep == Typed /\ [Next]_vars => LinksKept
  <1> SUFFICES ASSUME Typed, [Next]_vars PROVE LinksKept
    OBVIOUS
  <1> USE DEF Typed
  <1>a. desk \in [Desks -> DeskType]
    BY DEF TypeOK, DeskType
  <1>b. \A u \in Users, kind \in {"reset", "change"} : LiveLinks(kind, u) \subseteq Numbers
    BY DEF LiveLinks
  <1>1. CASE UNCHANGED links
    BY <1>1 DEF LinksKept
  <1>2. ASSUME NEW u \in Users, DeleteAdminUser(u) PROVE LinksKept
    <2>1. links' = MarkedUsed({n \in Numbers : links[n].user = u})
      BY <1>2 DEF DeleteAdminUser, MarkedUsed
    <2> QED BY <2>1, MarkedLinksKept
  <1>3. ASSUME NEW n \in Numbers, ExpireLink(n) PROVE LinksKept
    BY <1>3, MarkedLinksKept DEF ExpireLink
  <1>4. ASSUME NEW k \in Desks,
               ResetIssued(k) \/ ResetPassword(k) \/ RequestEmailChange(k) \/ ConfirmEmailChange(k)
        PROVE  LinksKept
    <2>1. desk[k].user \in Users /\ desk[k].old \in SUBSET Numbers
      BY <1>a, <1>4 DEF ResetIssued, ResetPassword, RequestEmailChange, ConfirmEmailChange,
                        DesksNamed, DeskType
    <2>2. CASE ResetIssued(k)
      BY <2>1, <2>2, IssuedLinksKept DEF ResetIssued
    <2>3. CASE ResetPassword(k) \/ ConfirmEmailChange(k)
      BY <1>b, <2>1, <2>3, MarkedLinksKept DEF ResetPassword, ConfirmEmailChange
    <2>4. CASE RequestEmailChange(k)
      <3>1. desk[k].to \in Emails
        BY <2>4 DEF RequestEmailChange, DesksNamed
      <3> QED BY <1>b, <2>1, <2>4, <3>1, IssuedLinksKept DEF RequestEmailChange
    <2> QED BY <1>4, <2>2, <2>3, <2>4
  <1>5. \/ UNCHANGED links
        \/ \E u \in Users : DeleteAdminUser(u)
        \/ \E n \in Numbers : ExpireLink(n)
        \/ \E k \in Desks :
             ResetIssued(k) \/ ResetPassword(k) \/ RequestEmailChange(k) \/ ConfirmEmailChange(k)
    BY DEF Next, vars, CreateSignup, UpdateAdminUser, AsksToLink, UnlinkOAuthProvider, DropDesk,
           RequestPasswordReset, CreateOAuthUser, AsksEmailChange, ClaimsLink, OpensReset,
           OpensChange, SignsIn, RenamesTag, JoinsIdentity
  <1> QED BY <1>1, <1>2, <1>3, <1>4, <1>5

\* A click comes to wait only on a live link.
LEMMA ClicksStep ==
    ASSUME Typed, [Next]_vars, NEW k \in Desks, desk'[k].task = "confirm"
    PROVE  desk'[k] = desk[k] \/ \E n \in Numbers : OpensChange(k, n)
  <1> USE DEF Typed
  <1>a. desk \in [Desks -> DeskType]
    BY DEF TypeOK, DeskType
  <1>1. ASSUME NEW j \in Desks, Ends(j) PROVE desk'[k] = desk[k]
    BY <1>a, <1>1 DEF Ends, Idle
  <1>2. ASSUME NEW j \in Desks, NEW req, Waits(j, req), req.task # "confirm" PROVE desk'[k] = desk[k]
    BY <1>a, <1>2 DEF Waits
  <1>3. ASSUME NEW j \in Desks, NEW n \in Numbers, OpensChange(j, n)
        PROVE  desk'[k] = desk[k] \/ OpensChange(k, n)
    BY <1>a, <1>3 DEF OpensChange, Waits
  <1>4. ASSUME NEW j \in Desks,
               \/ \E u \in Users : RequestPasswordReset(j, u)
               \/ \E u \in Users, e \in Emails : AsksEmailChange(j, u, e)
               \/ \E n \in Numbers : OpensReset(j, n)
        PROVE  desk'[k] = desk[k]
    BY <1>2, <1>4 DEF RequestPasswordReset, AsksEmailChange, OpensReset, Idle
  <1>5. ASSUME NEW j \in Desks, NEW i \in Identities, NEW e \in Emails, SignsIn(j, i, e)
        PROVE  desk'[k] = desk[k]
    BY <1>2, <1>5 DEF SignsIn, Idle
  <1>6. ASSUME NEW j \in Desks, NEW u \in Users, NEW i \in Identities, ClaimsLink(j, u, i)
        PROVE  desk'[k] = desk[k]
    BY <1>2, <1>6 DEF ClaimsLink, Idle
  <1>7. ASSUME NEW j \in Desks,
               \/ DropDesk(j) \/ ResetIssued(j) \/ ResetPassword(j)
               \/ RequestEmailChange(j) \/ ConfirmEmailChange(j)
               \/ RenamesTag(j) \/ JoinsIdentity(j)
               \/ \E u \in Users : CreateOAuthUser(j, u)
        PROVE  desk'[k] = desk[k]
    BY <1>1, <1>7 DEF DropDesk, ResetIssued, ResetPassword, RequestEmailChange,
                      ConfirmEmailChange, RenamesTag, JoinsIdentity, CreateOAuthUser
  <1>8. CASE \/ \E u \in Users :
                  \/ \E e \in Emails : CreateSignup(u, e)
                  \/ \E e \in Emails, typed \in BOOLEAN : UpdateAdminUser(u, e, typed)
                  \/ DeleteAdminUser(u)
                  \/ \E p \in Providers : AsksToLink(u, p) \/ UnlinkOAuthProvider(u, p)
             \/ \E n \in Numbers : ExpireLink(n)
             \/ UNCHANGED vars
    BY <1>8 DEF CreateSignup, UpdateAdminUser, DeleteAdminUser, AsksToLink,
                UnlinkOAuthProvider, ExpireLink, vars
  <1> QED BY <1>3, <1>4, <1>5, <1>6, <1>7, <1>8 DEF Next

LEMMA LinksCurrentStep == Typed /\ LinksCurrent /\ [Next]_vars => LinksCurrent'
  <1> SUFFICES ASSUME Typed, LinksCurrent, [Next]_vars PROVE LinksCurrent'
    OBVIOUS
  <1> DEFINE Current(n) == links[n].live /\ links[n].kind = "change" =>
                              acct[links[n].user].pending = links[n].to
  <1>a. /\ acct \in [Users -> AcctType] /\ desk \in [Desks -> DeskType]
        /\ links \in [Numbers -> LinkType] /\ LinksNamed /\ DesksNamed
    BY DEF Typed, TypeOK, AcctType, DeskType, LinkType
  <1>b. LinksKept
    BY LinksKeptStep
  <1>c. links' \in [Numbers -> LinkType] /\ LinksNamed'
    BY TypedStep DEF Typed, TypeOK, LinkType
  <1>d. /\ \A u \in Users, kind \in {"reset", "change"} : LiveLinks(kind, u) \subseteq Numbers
        /\ Nil \notin Emails
    BY AccountsAssumption DEF LiveLinks
  <1>1. ASSUME NEW k \in Desks, desk'[k].task = "confirm"
        PROVE  /\ links'[desk'[k].link].kind = "change"
               /\ links'[desk'[k].link].user = desk'[k].user
               /\ links'[desk'[k].link].to = desk'[k].to
    <2>1. CASE desk'[k] = desk[k]
      <3>1. desk[k].link \in Numbers /\ links[desk[k].link].kind = "change"
        BY <1>1, <1>a, <2>1 DEF DesksNamed, LinksCurrent
      <3> QED BY <1>1, <1>b, <2>1, <3>1 DEF LinksCurrent, LinksKept
    <2>2. ASSUME NEW n \in Numbers, OpensChange(k, n)
          PROVE  /\ links'[desk'[k].link].kind = "change"
                 /\ links'[desk'[k].link].user = desk'[k].user
                 /\ links'[desk'[k].link].to = desk'[k].to
      BY <1>a, <2>2 DEF OpensChange, Waits, Idle
    <2> QED BY <1>1, <2>1, <2>2, ClicksStep
  <1>2. ASSUME NEW k \in Desks, RequestEmailChange(k), NEW n \in Numbers PROVE Current(n)'
    <2>1. desk[k].user \in Users /\ desk[k].to \in Emails
      BY <1>2, <1>a DEF RequestEmailChange, DesksNamed
    <2>2. links' \in Issued("change", desk[k].user, desk[k].to, LiveLinks("change", desk[k].user))
      BY <1>2 DEF RequestEmailChange
    <2>3. acct' = [acct EXCEPT ![desk[k].user].pending = desk[k].to]
      BY <1>2 DEF RequestEmailChange
    <2>4. ASSUME links'[n].live, links'[n].kind = "change"
          PROVE  acct'[links'[n].user].pending = links'[n].to
      <3>1. \/ links'[n] = [kind |-> "change", user |-> desk[k].user, to |-> desk[k].to,
                            live |-> TRUE]
            \/ /\ links[n].live /\ n \notin LiveLinks("change", desk[k].user)
               /\ links'[n].kind = links[n].kind
               /\ links'[n].user = links[n].user
               /\ links'[n].to = links[n].to
        BY <1>d, <2>1, <2>2, <2>4, IssuedLinksKept DEF Typed
      <3>2. CASE links'[n] = [kind |-> "change", user |-> desk[k].user, to |-> desk[k].to,
                              live |-> TRUE]
        BY <1>a, <2>1, <2>3, <3>2 DEF AcctType
      <3>3. CASE /\ links[n].live /\ n \notin LiveLinks("change", desk[k].user)
                 /\ links'[n].kind = links[n].kind
                 /\ links'[n].user = links[n].user
                 /\ links'[n].to = links[n].to
        <4>1. links[n].user # desk[k].user /\ links[n].user \in Users
          BY <1>a, <2>4, <3>3 DEF LiveLinks, LinksNamed
        <4> QED BY <1>a, <2>1, <2>3, <2>4, <3>3, <4>1 DEF LinksCurrent
      <3> QED BY <3>1, <3>2, <3>3
    <2> QED BY <2>4
  <1>3. ASSUME NEW k \in Desks, ConfirmEmailChange(k), NEW n \in Numbers PROVE Current(n)'
    <2>1. desk[k].user \in Users
      BY <1>3, <1>a DEF ConfirmEmailChange, DesksNamed
    <2>2. /\ links' = MarkedUsed(LiveLinks("change", desk[k].user))
          /\ acct' = [acct EXCEPT ![desk[k].user].email = desk[k].to,
                                  ![desk[k].user].pending = Nil]
      BY <1>3 DEF ConfirmEmailChange
    <2>3. ASSUME links'[n].live, links'[n].kind = "change"
          PROVE  acct'[links'[n].user].pending = links'[n].to
      <3>1. /\ links[n].live /\ n \notin LiveLinks("change", desk[k].user)
            /\ links'[n].kind = links[n].kind /\ links'[n].user = links[n].user
            /\ links'[n].to = links[n].to
        BY <1>d, <2>1, <2>2, <2>3, MarkedUsedType DEF Typed
      <3>2. links[n].user # desk[k].user /\ links[n].user \in Users
        BY <1>a, <2>3, <3>1 DEF LiveLinks, LinksNamed
      <3> QED BY <1>a, <2>1, <2>2, <2>3, <3>1, <3>2 DEF LinksCurrent
    <2> QED BY <2>3
  <1>4. ASSUME NEW k \in Desks, ResetIssued(k), NEW n \in Numbers PROVE Current(n)'
    <2>1. desk[k].user \in Users /\ desk[k].old \in SUBSET Numbers
      BY <1>4, <1>a DEF ResetIssued, DesksNamed, DeskType
    <2>2. links' \in Issued("reset", desk[k].user, Nil, desk[k].old) /\ UNCHANGED acct
      BY <1>4 DEF ResetIssued
    <2>3. links'[n].live /\ links'[n].kind = "change" =>
            /\ links[n].live
            /\ links'[n].kind = links[n].kind
            /\ links'[n].user = links[n].user
            /\ links'[n].to = links[n].to
      <3>1. \/ links'[n] = [kind |-> "reset", user |-> desk[k].user, to |-> Nil, live |-> TRUE]
            \/ links'[n].live =>
                 /\ links[n].live
                 /\ links'[n].kind = links[n].kind
                 /\ links'[n].user = links[n].user
                 /\ links'[n].to = links[n].to
        <4>1. Nil \in Emails \union {Nil} /\ "reset" \in {"reset", "change"} /\ "reset" # "change"
          OBVIOUS
        <4> QED BY <2>1, <2>2, <4>1, IssuedLinksKept DEF Typed
      <3> QED BY <3>1
    <2>4. ASSUME links'[n].live, links'[n].kind = "change"
          PROVE  acct'[links'[n].user].pending = links'[n].to
      <3>1. acct[links[n].user].pending = links[n].to
        BY <2>3, <2>4 DEF LinksCurrent
      <3> QED BY <2>2, <2>3, <2>4, <3>1
    <2> QED BY <2>4
  <1>5. ASSUME NEW u \in Users, acct[u] = NotMade, \A v \in Users \ {u} : acct'[v] = acct[v],
               UNCHANGED links, NEW n \in Numbers
        PROVE  Current(n)'
    <2>1. ASSUME links[n].live, links[n].kind = "change"
          PROVE  links[n].user \in Users \ {u}
      <3>1. links[n].user \in Users /\ links[n].to \in Emails
        BY <1>a, <2>1 DEF LinksNamed
      <3>2. acct[links[n].user].pending = links[n].to
        BY <2>1 DEF LinksCurrent
      <3>3. acct[u].pending = Nil
        BY <1>5 DEF NotMade
      <3> QED BY <1>d, <3>1, <3>2, <3>3
    <2> QED BY <1>5, <2>1 DEF LinksCurrent
  <1>6. ASSUME NEW u \in Users, DeleteAdminUser(u), NEW n \in Numbers PROVE Current(n)'
    <2>1. /\ links' = MarkedUsed({m \in Numbers : links[m].user = u})
          /\ \A v \in Users \ {u} : acct'[v] = acct[v]
      BY <1>6, <1>a DEF DeleteAdminUser, MarkedUsed
    <2>2. ASSUME links'[n].live, links'[n].kind = "change"
          PROVE  acct'[links'[n].user].pending = links'[n].to
      <3>1. /\ links[n].live /\ links[n].user # u
            /\ links'[n].kind = links[n].kind /\ links'[n].user = links[n].user
            /\ links'[n].to = links[n].to
        BY <2>1, <2>2, MarkedUsedType DEF Typed
      <3>2. links[n].user \in Users
        BY <1>a, <3>1 DEF LinksNamed
      <3> QED BY <2>1, <2>2, <3>1, <3>2 DEF LinksCurrent
    <2> QED BY <2>2
  <1>7. ASSUME \A u \in Users : acct'[u].pending = acct[u].pending,
               \A n \in Numbers : links'[n].live =>
                  /\ links[n].live /\ links'[n].kind = links[n].kind
                  /\ links'[n].user = links[n].user /\ links'[n].to = links[n].to,
               NEW n \in Numbers
        PROVE  Current(n)'
    BY <1>7, <1>a DEF LinksCurrent, LinksNamed
  <1>8. ASSUME UNCHANGED links, NEW n \in Numbers,
               \/ \E u \in Users, e \in Emails, typed \in BOOLEAN : UpdateAdminUser(u, e, typed)
               \/ \E k \in Desks : RenamesTag(k) \/ JoinsIdentity(k)
               \/ \E u \in Users, p \in Providers : UnlinkOAuthProvider(u, p)
               \/ UNCHANGED acct
        PROVE  Current(n)'
    <2>1. ASSUME NEW u \in Users, NEW e \in Emails, NEW typed \in BOOLEAN,
                 UpdateAdminUser(u, e, typed), NEW v \in Users
          PROVE  acct'[v].pending = acct[v].pending
      BY <1>a, <2>1 DEF UpdateAdminUser, AcctType
    <2>2. ASSUME NEW k \in Desks, RenamesTag(k) \/ JoinsIdentity(k), NEW v \in Users
          PROVE  acct'[v].pending = acct[v].pending
      <3>1. desk[k].user \in Users
        BY <1>a, <2>2 DEF RenamesTag, JoinsIdentity, DesksNamed
      <3>2. acct' = [acct EXCEPT ![desk[k].user] = Tagged(@, desk[k].id)]
        BY <2>2 DEF RenamesTag, JoinsIdentity
      <3> QED BY <1>a, <3>1, <3>2 DEF Tagged, AcctType
    <2>3. ASSUME NEW u \in Users, NEW p \in Providers, UnlinkOAuthProvider(u, p), NEW v \in Users
          PROVE  acct'[v].pending = acct[v].pending
      BY <1>a, <2>3 DEF UnlinkOAuthProvider, AcctType
    <2>4. \A u \in Users : acct'[u].pending = acct[u].pending
      BY <1>8, <2>1, <2>2, <2>3
    <2> QED BY <1>7, <1>8, <2>4
  <1>9. ASSUME NEW n \in Numbers,
               \/ \E m \in Numbers : ExpireLink(m)
               \/ \E k \in Desks : ResetPassword(k)
        PROVE  Current(n)'
    <2>1. PICK old \in SUBSET Numbers : links' = MarkedUsed(old)
      BY <1>9, <1>a, <1>d DEF ExpireLink, ResetPassword, DesksNamed
    <2>2. \A u \in Users : acct'[u].pending = acct[u].pending
      <3>1. ASSUME NEW k \in Desks, ResetPassword(k)
            PROVE  \A u \in Users : acct'[u].pending = acct[u].pending
        <4>1. desk[k].user \in Users
          BY <1>a, <3>1 DEF ResetPassword, DesksNamed
        <4>2. acct' = [acct EXCEPT ![desk[k].user].password = TRUE]
          BY <3>1 DEF ResetPassword
        <4> QED BY <1>a, <4>1, <4>2 DEF AcctType
      <3> QED BY <1>9, <3>1 DEF ExpireLink
    <2> QED BY <1>7, <2>1, <2>2, MarkedUsedType DEF Typed
  <1>10. ASSUME NEW n \in Numbers PROVE Current(n)'
    <2>1. CASE \/ \E u \in Users, e \in Emails : CreateSignup(u, e)
               \/ \E k \in Desks, u \in Users : CreateOAuthUser(k, u)
      BY <1>5, <1>a, <2>1 DEF CreateSignup, CreateOAuthUser
    <2>2. CASE \/ \E u \in Users, p \in Providers : AsksToLink(u, p)
               \/ \E k \in Desks :
                    \/ DropDesk(k)
                    \/ \E u \in Users : RequestPasswordReset(k, u)
                    \/ \E u \in Users, e \in Emails : AsksEmailChange(k, u, e)
                    \/ \E u \in Users, i \in Identities : ClaimsLink(k, u, i)
                    \/ \E m \in Numbers : OpensReset(k, m) \/ OpensChange(k, m)
                    \/ \E i \in Identities, e \in Emails : SignsIn(k, i, e)
               \/ UNCHANGED vars
      <3>1. UNCHANGED <<acct, links>>
        BY <2>2 DEF AsksToLink, DropDesk, RequestPasswordReset, AsksEmailChange, ClaimsLink,
                    OpensReset, OpensChange, SignsIn, vars
      <3> QED BY <1>8, <3>1
    <2>3. CASE \/ \E u \in Users, e \in Emails, typed \in BOOLEAN : UpdateAdminUser(u, e, typed)
               \/ \E k \in Desks : RenamesTag(k) \/ JoinsIdentity(k)
               \/ \E u \in Users, p \in Providers : UnlinkOAuthProvider(u, p)
      BY <1>8, <2>3 DEF UpdateAdminUser, RenamesTag, JoinsIdentity, UnlinkOAuthProvider
    <2> QED BY <1>2, <1>3, <1>4, <1>6, <1>9, <2>1, <2>2, <2>3 DEF Next
  <1> QED BY <1>1, <1>10 DEF LinksCurrent

\* However clicks, new requests, staff edits and expiries interleave, an address
\* becomes the one its account last asked for or one staff typed.
THEOREM OnlyTheLastAddress == Spec => OnlyTheAddressLastAsked
  <1> DEFINE A == \A u \in Users :
        /\ Active(u) /\ acct'[u].is = "active"
        /\ acct'[u].email # acct[u].email
        => \/ acct'[u].email = acct[u].pending
           \/ \E typed \in BOOLEAN : UpdateAdminUser(u, acct'[u].email, typed)
  <1>1. Init => LinksCurrent
    BY DEF Init, LinksCurrent, NotSent, Idle
  <1>2. Typed /\ LinksCurrent /\ [Next]_vars => [A]_vars
    <2> SUFFICES ASSUME Typed, LinksCurrent, Next, NEW u \in Users,
                        Active(u), acct'[u].is = "active", acct'[u].email # acct[u].email
                 PROVE  \/ acct'[u].email = acct[u].pending
                        \/ \E typed \in BOOLEAN : UpdateAdminUser(u, acct'[u].email, typed)
      OBVIOUS
    <2>a. /\ acct \in [Users -> AcctType] /\ DesksNamed
      BY DEF Typed, TypeOK, AcctType
    <2>1. ASSUME NEW v \in Users, NEW e \in Emails, NEW typed \in BOOLEAN,
                 UpdateAdminUser(v, e, typed)
          PROVE  UpdateAdminUser(u, acct'[u].email, typed)
      <3>1. v = u /\ acct'[u].email = e
        BY <2>a, <2>1 DEF UpdateAdminUser, AcctType
      <3> QED BY <2>1, <3>1
    <2>2. ASSUME NEW k \in Desks, ConfirmEmailChange(k) PROVE acct'[u].email = acct[u].pending
      <3>1. /\ desk[k].task = "confirm" /\ desk[k].user \in Users /\ desk[k].link \in Numbers
            /\ links[desk[k].link].live
        BY <2>a, <2>2 DEF ConfirmEmailChange, DesksNamed, Consumable
      <3>2. acct[desk[k].user].pending = desk[k].to
        BY <3>1 DEF LinksCurrent
      <3>3. desk[k].user = u /\ acct'[u].email = desk[k].to
        BY <2>a, <2>2, <3>1 DEF ConfirmEmailChange, AcctType
      <3> QED BY <3>2, <3>3
    <2>3. ASSUME NEW k \in Desks,
                 \/ ResetPassword(k) \/ RequestEmailChange(k)
                 \/ RenamesTag(k) \/ JoinsIdentity(k)
          PROVE  FALSE
      BY <2>a, <2>3 DEF ResetPassword, RequestEmailChange, RenamesTag, JoinsIdentity, Tagged,
                        AcctType, DesksNamed
    <2>4. ASSUME NEW v \in Users,
                 \/ \E e \in Emails : CreateSignup(v, e)
                 \/ \E k \in Desks : CreateOAuthUser(k, v)
                 \/ DeleteAdminUser(v)
                 \/ \E p \in Providers : UnlinkOAuthProvider(v, p)
          PROVE  FALSE
      <3>1. CASE UNCHANGED acct[u]
        BY <3>1
      <3>2. CASE v = u /\ ~UNCHANGED acct[u]
        <4>1. ~(acct[u] = NotMade)
          BY DEF Active, NotMade
        <4>2. CASE DeleteAdminUser(v)
          BY <2>a, <3>2, <4>2 DEF DeleteAdminUser, NotMade
        <4>3. CASE \E p \in Providers : UnlinkOAuthProvider(v, p)
          BY <2>a, <3>2, <4>3 DEF UnlinkOAuthProvider, AcctType
        <4> QED BY <2>4, <3>2, <4>1, <4>2, <4>3 DEF CreateSignup, CreateOAuthUser
      <3>3. CASE v # u
        BY <2>a, <2>4, <3>3 DEF CreateSignup, CreateOAuthUser, DeleteAdminUser, UnlinkOAuthProvider
      <3> QED BY <3>1, <3>2, <3>3
    <2>5. CASE \/ \E n \in Numbers : ExpireLink(n)
               \/ \E v \in Users, p \in Providers : AsksToLink(v, p)
               \/ \E k \in Desks :
                    \/ DropDesk(k) \/ ResetIssued(k)
                    \/ \E v \in Users : RequestPasswordReset(k, v)
                    \/ \E v \in Users, e \in Emails : AsksEmailChange(k, v, e)
                    \/ \E v \in Users, i \in Identities : ClaimsLink(k, v, i)
                    \/ \E n \in Numbers : OpensReset(k, n) \/ OpensChange(k, n)
                    \/ \E i \in Identities, e \in Emails : SignsIn(k, i, e)
      <3>1. UNCHANGED acct
        BY <2>5 DEF ExpireLink, AsksToLink, DropDesk, ResetIssued, RequestPasswordReset,
                    AsksEmailChange, ClaimsLink, OpensReset, OpensChange, SignsIn
      <3> QED BY <3>1
    <2> QED BY <2>1, <2>2, <2>3, <2>4, <2>5 DEF Next
  <1> QED
    BY InitTyped, TypedStep, LinksCurrentStep, <1>1, <1>2, PTL
    DEF Spec, OnlyTheAddressLastAsked

=============================================================================
