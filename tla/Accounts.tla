------------------------------ MODULE Accounts ------------------------------
(***************************************************************************)
(* How a person gets into their account: its address, its password and the *)
(* provider identities linked to it.  modules/auth/auth.service.js,        *)
(* modules/auth/oauth.service.js and the account edits of                  *)
(* modules/admin/admin-users.service.js.                                   *)
(* Every handler that looks something up, leaves the database (a password  *)
(* hash, the provider) and then writes is two steps; the requests waiting  *)
(* between the two are the desks.  Unlinking is SERIALIZABLE: one step.    *)
(* Sessions, verification links and mobile grants are not modelled.        *)
(***************************************************************************)
EXTENDS Integers, FiniteSets

CONSTANTS
    Users,        \* the accounts there can be; an id is never used again
    Emails,       \* addresses
    Discords,     \* Discord identities
    Googles,      \* Google identities
    Desks,        \* the requests that can be under way
    MaxLinks,     \* bound: links that are mailed
    Nil           \* no user, address, identity

Identities == Discords \union Googles

ASSUME AccountsAssumption ==
    /\ Nil \notin Users \union Emails \union Identities
    /\ Discords \intersect Googles = {}
    /\ MaxLinks \in Nat

VARIABLES
    acct,      \* the users
    owner,     \* the oAuthAccount rows: whose each identity is
    links,     \* the mailed links, by number: passwordResetToken, emailChangeToken
    asked,     \* the users and providers with an OAuth link nonce not yet used
    desk       \* the requests that have read and not yet written

vars == <<acct, owner, links, asked, desk>>

Providers == {Discords, Googles}

NotMade == [is |-> "new", email |-> Nil, pending |-> Nil, password |-> FALSE, tag |-> Nil]
NotSent == [kind |-> "none", user |-> Nil, to |-> Nil, live |-> FALSE]
Idle    == [task |-> "idle", user |-> Nil, to |-> Nil, id |-> Nil, link |-> 0, old |-> {}]

Numbers == 1..MaxLinks

TypeOK ==
    /\ acct \in [Users -> [is: {"new", "active", "deleted"}, email: Emails \union {Nil},
                           pending: Emails \union {Nil}, password: BOOLEAN,
                           tag: Discords \union {Nil}]]
    /\ owner \in [Identities -> Users \union {Nil}]
    /\ links \in [Numbers -> [kind: {"none", "reset", "change"}, user: Users \union {Nil},
                              to: Emails \union {Nil}, live: BOOLEAN]]
    /\ asked \subseteq Users \X Providers
    /\ desk \in [Desks -> [task: {"idle", "ask", "issue", "confirm", "reset", "rename",
                                  "join", "create", "link"},
                           user: Users \union {Nil}, to: Emails \union {Nil},
                           id: Identities \union {Nil}, link: Numbers \union {0},
                           old: SUBSET Numbers]]

Init ==
    /\ acct = [u \in Users |-> NotMade]
    /\ owner = [i \in Identities |-> Nil]
    /\ links = [n \in Numbers |-> NotSent]
    /\ asked = {}
    /\ desk = [k \in Desks |-> Idle]

Active(u) == acct[u].is = "active"
Taken(e)  == \E u \in Users : acct[u].email = e
Linked(u) == {i \in Identities : owner[i] = u}

Waits(k, req) == desk[k] = Idle /\ desk' = [desk EXCEPT ![k] = req]
Ends(k)       == desk' = [desk EXCEPT ![k] = Idle]

\* The request fails: a unique key, a row that is gone, the provider, the process.
DropDesk(k) == desk[k] # Idle /\ Ends(k) /\ UNCHANGED <<acct, owner, links, asked>>

-----------------------------------------------------------------------------
(* Accounts made with an address and a password.                           *)

\* createSignup, createAdminUser.
CreateSignup(u, e) ==
    /\ acct[u] = NotMade /\ ~Taken(e)
    /\ acct' = [acct EXCEPT ![u] =
                  [NotMade EXCEPT !.is = "active", !.email = e, !.password = TRUE]]
    /\ UNCHANGED <<owner, links, asked, desk>>

\* updateAdminUser: the address, and a password if one is typed.
UpdateAdminUser(u, e, typed) ==
    /\ Active(u)
    /\ e = acct[u].email \/ ~Taken(e)
    /\ acct' = [acct EXCEPT ![u].email = e, ![u].password = @ \/ typed]
    /\ UNCHANGED <<owner, links, asked, desk>>

\* deleteAdminUser: the rows of the account go with it.
DeleteAdminUser(u) ==
    /\ Active(u)
    /\ acct' = [acct EXCEPT ![u] = [NotMade EXCEPT !.is = "deleted"]]
    /\ owner' = [i \in Identities |-> IF owner[i] = u THEN Nil ELSE owner[i]]
    /\ links' = [n \in Numbers |-> IF links[n].user = u
                                   THEN [links[n] EXCEPT !.live = FALSE] ELSE links[n]]
    /\ asked' = {p \in asked : p[1] # u}
    /\ UNCHANGED desk

-----------------------------------------------------------------------------
(* Mailed links.                                                           *)

LiveLinks(kind, u) ==
    {n \in Numbers : links[n].live /\ links[n].kind = kind /\ links[n].user = u}

\* markOutstandingTokensAsUsed.
MarkedUsed(old) == [n \in Numbers |->
    IF n \in old THEN [links[n] EXCEPT !.live = FALSE] ELSE links[n]]

\* issueUserToken: the outstanding links are used up and a new one is made.
Issued(kind, u, to, old) ==
    {[MarkedUsed(old) EXCEPT ![n] = [kind |-> kind, user |-> u, to |-> to, live |-> TRUE]] :
        n \in {m \in Numbers : links[m] = NotSent /\ \A k \in 1..(m - 1) : links[k] # NotSent}}

\* Mutant: a link that was found once is good.
StillGood(n) == TRUE

\* consumeUserToken: it is still unused and in time, and no issue that will mark
\* it used has its row.
Consumable(n) ==
    /\ links[n].live
    /\ \A k \in Desks : n \notin desk[k].old

ExpireLink(n) ==
    /\ links[n].live
    /\ links' = MarkedUsed({n})
    /\ UNCHANGED <<acct, owner, asked, desk>>

\* requestPasswordReset: what is outstanding is looked up under no lock of the
\* account, so two requests at once each leave a link.
RequestPasswordReset(k, u) ==
    /\ Active(u)
    /\ \A j \in Desks : desk[j].old \intersect LiveLinks("reset", u) = {}
    /\ Waits(k, [Idle EXCEPT !.task = "issue", !.user = u, !.old = LiveLinks("reset", u)])
    /\ UNCHANGED <<acct, owner, links, asked>>

ResetIssued(k) ==
    /\ desk[k].task = "issue" /\ Active(desk[k].user)
    /\ links' \in Issued("reset", desk[k].user, Nil, desk[k].old)
    /\ Ends(k)
    /\ UNCHANGED <<acct, owner, asked>>

\* resetPassword up to the hash, and its transaction.
OpensReset(k, n) ==
    /\ links[n].live /\ links[n].kind = "reset"
    /\ Waits(k, [Idle EXCEPT !.task = "reset", !.user = links[n].user, !.link = n])
    /\ UNCHANGED <<acct, owner, links, asked>>

ResetPassword(k) ==
    /\ desk[k].task = "reset" /\ Active(desk[k].user)
    /\ Consumable(desk[k].link)
    /\ LiveLinks("reset", desk[k].user) \subseteq {n \in Numbers : Consumable(n)}
    /\ acct' = [acct EXCEPT ![desk[k].user].password = TRUE]
    /\ links' = MarkedUsed(LiveLinks("reset", desk[k].user))
    /\ Ends(k)
    /\ UNCHANGED <<owner, asked>>

\* requestEmailChange up to its conflict check, and its transaction, which holds
\* the account's row and so sees every earlier link.
AsksEmailChange(k, u, e) ==
    /\ Active(u) /\ acct[u].password
    /\ ~Taken(e) /\ \A v \in Users \ {u} : acct[v].pending # e
    /\ Waits(k, [Idle EXCEPT !.task = "ask", !.user = u, !.to = e])
    /\ UNCHANGED <<acct, owner, links, asked>>

RequestEmailChange(k) ==
    LET u == desk[k].user  e == desk[k].to IN
    /\ desk[k].task = "ask" /\ Active(u)
    /\ \A v \in Users \ {u} : acct[v].pending # e
    /\ acct' = [acct EXCEPT ![u].pending = e]
    /\ links' \in Issued("change", u, e, LiveLinks("change", u))
    /\ Ends(k)
    /\ UNCHANGED <<owner, asked>>

\* confirmEmailChange up to its transaction, and the transaction.
OpensChange(k, n) ==
    /\ links[n].live /\ links[n].kind = "change"
    /\ Waits(k, [Idle EXCEPT !.task = "confirm", !.user = links[n].user,
                             !.to = links[n].to, !.link = n])
    /\ UNCHANGED <<acct, owner, links, asked>>

ConfirmEmailChange(k) ==
    LET u == desk[k].user  e == desk[k].to IN
    /\ desk[k].task = "confirm" /\ Active(u)
    /\ \A v \in Users \ {u} : acct[v].email # e
    /\ Consumable(desk[k].link)
    /\ acct' = [acct EXCEPT ![u].email = e, ![u].pending = Nil]
    /\ links' = MarkedUsed(LiveLinks("change", u))
    /\ Ends(k)
    /\ UNCHANGED <<owner, asked>>

-----------------------------------------------------------------------------
(* Provider identities.                                                    *)

\* Mutant: every provider's identity becomes the Discord handle.
AlwaysTagged(a, i) == [a EXCEPT !.tag = i]

\* The tag is the handle of the Discord identity last seen.
Tagged(a, i) == IF i \in Discords THEN [a EXCEPT !.tag = i] ELSE a

\* findOrCreateOAuthUser up to its writes: the identity is linked and its handle
\* differs, or an account has the (verified) address, or neither.
SignsIn(k, i, e) ==
    /\ \/ /\ owner[i] # Nil /\ i \in Discords /\ acct[owner[i]].tag # i
          /\ Waits(k, [Idle EXCEPT !.task = "rename", !.user = owner[i], !.id = i])
       \/ \E u \in Users :
            /\ owner[i] = Nil /\ acct[u].email = e
            /\ Waits(k, [Idle EXCEPT !.task = "join", !.user = u, !.id = i])
       \/ /\ owner[i] = Nil /\ ~Taken(e)
          /\ Waits(k, [Idle EXCEPT !.task = "create", !.id = i, !.to = e])
    /\ UNCHANGED <<acct, owner, links, asked>>

\* The handle of a linked identity is written to the account it was read for.
RenamesTag(k) ==
    /\ desk[k].task = "rename" /\ Active(desk[k].user)
    /\ acct' = [acct EXCEPT ![desk[k].user] = Tagged(@, desk[k].id)]
    /\ Ends(k)
    /\ UNCHANGED <<owner, links, asked>>

\* The unique key of oAuthAccount.
Unlinked(i) == owner[i] = Nil

\* The identity and its handle are written together: the account with its
\* address signs in, or the user comes back from the provider to link it.
JoinsIdentity(k) ==
    /\ desk[k].task = "join" /\ Active(desk[k].user)
    /\ Unlinked(desk[k].id)
    /\ owner' = [owner EXCEPT ![desk[k].id] = desk[k].user]
    /\ acct' = [acct EXCEPT ![desk[k].user] = Tagged(@, desk[k].id)]
    /\ Ends(k)
    /\ UNCHANGED <<links, asked>>

CreateOAuthUser(k, u) ==
    /\ desk[k].task = "create" /\ acct[u] = NotMade
    /\ Unlinked(desk[k].id) /\ ~Taken(desk[k].to)
    /\ owner' = [owner EXCEPT ![desk[k].id] = u]
    /\ acct' = [acct EXCEPT ![u] =
                  Tagged([NotMade EXCEPT !.is = "active", !.email = desk[k].to], desk[k].id)]
    /\ Ends(k)
    /\ UNCHANGED <<links, asked>>

\* createOAuthLinkAuthorization.
AsksToLink(u, provider) ==
    /\ Active(u)
    /\ asked' = asked \union {<<u, provider>>}
    /\ UNCHANGED <<acct, owner, links, desk>>

\* handleOAuthLinkCallback up to its writes: the nonce is claimed and the
\* identity is free, or already this user's.
ClaimsLink(k, u, i) ==
    /\ \E provider \in Providers :
         /\ i \in provider /\ <<u, provider>> \in asked
         /\ asked' = asked \ {<<u, provider>>}
    /\ \/ /\ owner[i] = Nil
          /\ Waits(k, [Idle EXCEPT !.task = "join", !.user = u, !.id = i])
       \/ /\ owner[i] = u /\ i \in Discords
          /\ Waits(k, [Idle EXCEPT !.task = "rename", !.user = u, !.id = i])
       \/ /\ \/ owner[i] = u /\ i \in Googles
             \/ owner[i] \notin {u, Nil}
          /\ UNCHANGED desk
    /\ UNCHANGED <<acct, owner, links>>

\* Mutant: the provider that goes is counted as the one that stays.
CountsItself(u, provider) == Linked(u) # {}

\* A verified password or another provider is left.
LeavesAWayIn(u, provider) == acct[u].password \/ Linked(u) \ provider # {}

\* unlinkOAuthProvider.
UnlinkOAuthProvider(u, provider) ==
    /\ Active(u)
    /\ Linked(u) \intersect provider # {}
    /\ LeavesAWayIn(u, provider)
    /\ owner' = [i \in Identities |-> IF owner[i] = u /\ i \in provider THEN Nil ELSE owner[i]]
    /\ acct' = IF provider = Discords THEN [acct EXCEPT ![u].tag = Nil] ELSE acct
    /\ UNCHANGED <<links, asked, desk>>

-----------------------------------------------------------------------------
Next ==
    \/ \E u \in Users :
         \/ \E e \in Emails : CreateSignup(u, e)
         \/ \E e \in Emails, typed \in BOOLEAN : UpdateAdminUser(u, e, typed)
         \/ DeleteAdminUser(u)
         \/ \E p \in Providers : AsksToLink(u, p) \/ UnlinkOAuthProvider(u, p)
    \/ \E n \in Numbers : ExpireLink(n)
    \/ \E k \in Desks :
         \/ DropDesk(k)
         \/ \E u \in Users : RequestPasswordReset(k, u) \/ CreateOAuthUser(k, u)
         \/ \E u \in Users, e \in Emails : AsksEmailChange(k, u, e)
         \/ \E u \in Users, i \in Identities : ClaimsLink(k, u, i)
         \/ \E n \in Numbers : OpensReset(k, n) \/ OpensChange(k, n)
         \/ \E i \in Identities, e \in Emails : SignsIn(k, i, e)
         \/ ResetIssued(k) \/ ResetPassword(k)
         \/ RequestEmailChange(k) \/ ConfirmEmailChange(k)
         \/ RenamesTag(k) \/ JoinsIdentity(k)

Spec == Init /\ [][Next]_vars

-----------------------------------------------------------------------------
(* What holds.                                                             *)

\* Whoever unlinks, twice at once or while something else changes, is never left
\* with an account there is no way into.
EveryoneCanSignIn == \A u \in Users :
    Active(u) => acct[u].password \/ Linked(u) # {}

\* A link that was superseded, or that another click used, changes nothing: an
\* address becomes the one last asked for, unless staff type another.
OnlyTheAddressLastAsked == [][\A u \in Users :
    /\ Active(u) /\ acct'[u].is = "active"
    /\ acct'[u].email # acct[u].email
    => \/ acct'[u].email = acct[u].pending
       \/ \E typed \in BOOLEAN : UpdateAdminUser(u, acct'[u].email, typed)]_vars

=============================================================================
