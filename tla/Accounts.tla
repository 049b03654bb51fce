------------------------------- MODULE Accounts -------------------------------
(***************************************************************************)
(* Accounts and what belongs to them: registration with invites, tokens by *)
(* mail, profiles, bookmarks and saved items, erasure (api/routes,         *)
(* db/repositories.py, db/init.py).  Passwords, sessions, preferences,     *)
(* limits per address, developer keys, the audit trail and the rows that   *)
(* are deleted or made anonymous like others are left out; a request that  *)
(* writes what it read is two steps.                                       *)
(***************************************************************************)
EXTENDS Naturals, Sequences, FiniteSets

CONSTANTS Users, Owners, Admin, Codes, Nobody, Clients,
          InvitesRequired, MaxTokens, MaxProfiles

VARIABLES
    users, verified,
    via,       \* by user: the invite it registered with
    invites,   \* by code: who made it and who used it
    tokens,    \* in order: for a reset or a verification, whose, used
    profiles,  \* in order: whose, active
    marks,     \* bookmarks: <<profile, opportunity>>
    saved,     \* saved items: users, there is one opportunity
    request,   \* by client: what it read
    spent,     \* history: how often a token has worked
    refused,   \* history: tables for whose rows the last erasure failed
    raced      \* history: two requests have read the same before either wrote

vars == <<users, verified, via, invites, tokens, profiles, marks, saved, request, spent, refused, raced>>

Free == [op |-> "none", user |-> Nobody, arg |-> 0]

Init ==
    /\ users = {Admin} /\ verified = {} /\ via = [u \in Users |-> Nobody]
    /\ invites = [c \in Codes |-> [by |-> Nobody, used |-> Nobody]]
    /\ tokens = <<>> /\ profiles = <<>>
    /\ marks = {} /\ saved = {}
    /\ request = [c \in Clients |-> Free]
    /\ spent = [t \in 1 .. MaxTokens |-> 0]
    /\ refused = {} /\ raced = FALSE

account == <<users, verified, via, invites>>
belongings == <<profiles, marks, saved>>
history == <<spent, refused>>

Read(c, op, u, a) ==
    /\ request[c] = Free
    /\ request' = [request EXCEPT ![c] = [op |-> op, user |-> u, arg |-> a]]
    /\ raced' = (raced \/ \E d \in Clients \ {c} : request[d].op = op /\ (request[d].arg = a \/ request[d].user = u))
Answer(c) == request' = [request EXCEPT ![c] = Free] /\ UNCHANGED raced
Reads(c, op) == request[c].op = op

Issue(kind, u) ==
    /\ Len(tokens) < MaxTokens
    /\ tokens' = Append(tokens, [kind |-> kind, of |-> u, used |-> FALSE])

-----------------------------------------------------------------------------
(* Registration, tokens.                                                   *)

\* register: the address is new, the code, when one is given, is not used.
RegisterRead(c, u, code) ==
    /\ u \notin users
    /\ code = Nobody => ~InvitesRequired
    /\ code # Nobody => invites[code] = [by |-> Admin, used |-> Nobody]
    /\ Read(c, "register", u, code)
    /\ UNCHANGED <<account, tokens, belongings, history>>

\* The address is unique in the table; a second commit issues the token.
RegisterCommit(c) ==
    /\ Reads(c, "register") /\ Answer(c)
    /\ LET u == request[c].user  code == request[c].arg
       IN IF u \in users THEN UNCHANGED <<account, tokens>>
          ELSE /\ users' = users \union {u} /\ via' = [via EXCEPT ![u] = code]
               /\ invites' = [k \in Codes |-> IF k = code THEN [invites[k] EXCEPT !.used = u] ELSE invites[k]]
               /\ (Issue("verify", u) \/ (Len(tokens) = MaxTokens /\ UNCHANGED tokens))
               /\ UNCHANGED verified
    /\ UNCHANGED <<belongings, history>>

\* access: with the shared code an unknown address becomes an account, without a token.
Access(u) ==
    /\ ~InvitesRequired /\ u \notin users
    /\ users' = users \union {u}
    /\ UNCHANGED <<verified, via, invites, tokens, belongings, request, history, raced>>

\* forgot_password, or resend_verification: older tokens stay valid.
Forgot(u, kind) ==
    /\ u \in users /\ (kind = "verify" => u \notin verified)
    /\ Issue(kind, u)
    /\ UNCHANGED <<account, belongings, request, history, raced>>

\* reset_password and verify_email.
TokenRead(c, t) ==
    /\ ~tokens[t].used /\ tokens[t].of \in users
    /\ Read(c, "token", tokens[t].of, t)
    /\ UNCHANGED <<account, tokens, belongings, history>>

\* Mutant: the token that worked is not marked.
Unmarked(t) == tokens

MarkUsed(t) == [tokens EXCEPT ![t].used = TRUE]

TokenCommit(c) ==
    /\ Reads(c, "token") /\ Answer(c)
    /\ LET t == request[c].arg
       IN IF tokens[t].of \notin users THEN UNCHANGED <<verified, tokens, spent>>
          ELSE /\ tokens' = MarkUsed(t)
               /\ verified' = IF tokens[t].kind = "verify" THEN verified \union {tokens[t].of} ELSE verified
               /\ spent' = [spent EXCEPT ![t] = @ + 1]
    /\ UNCHANGED <<users, via, invites, belongings, refused>>

\* create_invite, of an admin.
CreateInvite(code) ==
    /\ Admin \in users /\ invites[code].by = Nobody
    /\ invites' = [invites EXCEPT ![code].by = Admin]
    /\ UNCHANGED <<users, verified, via, tokens, belongings, request, history, raced>>

-----------------------------------------------------------------------------
(* What belongs to an account.                                             *)

Own(u) == {p \in DOMAIN profiles : profiles[p].of = u}
Active(u) == {p \in Own(u) : profiles[p].active}

\* build_profile deactivates what it finds and adds one.
BuildRead(c, u) ==
    /\ u \in users /\ Len(profiles) < MaxProfiles
    /\ Read(c, "build", u, Own(u))
    /\ UNCHANGED <<account, tokens, belongings, history>>

BuildCommit(c) ==
    /\ Reads(c, "build") /\ Answer(c)
    /\ LET u == request[c].user
       IN IF u \notin users \/ Len(profiles) = MaxProfiles THEN UNCHANGED profiles
          ELSE profiles' = Append([p \in DOMAIN profiles |->
                                      [profiles[p] EXCEPT !.active = @ /\ p \notin request[c].arg]],
                                  [of |-> u, active |-> TRUE])
    /\ UNCHANGED <<account, tokens, marks, saved, history>>

\* create_bookmark and delete_bookmark, of the active profile.
Bookmark(p) ==
    /\ profiles[p].of \in users /\ profiles[p].active
    /\ marks' = IF p \in marks THEN marks \ {p} ELSE marks \union {p}
    /\ UNCHANGED <<account, tokens, profiles, saved, request, history, raced>>

\* create_saved; delete_saved.
Save(u) ==
    /\ u \in users \ saved
    /\ saved' = saved \union {u}
    /\ UNCHANGED <<account, tokens, profiles, marks, request, spent, refused, raced>>
Unsave(u) ==
    /\ u \in saved
    /\ saved' = saved \ {u}
    /\ UNCHANGED <<account, tokens, profiles, marks, request, spent, refused, raced>>

\* migrate_bookmarks_to_saved, whenever a process starts.
Carry ==
    /\ saved' = saved \union {profiles[p].of : p \in marks}
    /\ saved' # saved
    /\ UNCHANGED <<account, tokens, profiles, marks, request, history, raced>>

-----------------------------------------------------------------------------
(* Erasure.                                                                *)

\* Tables with rows that refer to the account or its profiles.
Rows(u) ==
    (IF saved \intersect {u} # {} THEN {"saved_items"} ELSE {})
    \union {"invites" : c \in {x \in Codes : invites[x].by = u}}
    \union {tokens[t].kind : t \in {x \in DOMAIN tokens : tokens[x].of = u}}
    \union UNION {{"profiles"} \union IF p \in marks THEN {"bookmarks"} ELSE {} : p \in Own(u)}

\* What _erase deletes.
Deletes == {"reset", "verify", "profiles", "bookmarks"}

\* erase_account: the database refuses to delete a row that others refer to, and the
\* transaction with it; invites the account used are free again.
Erase(u) ==
    /\ u \in users
    /\ IF Rows(u) \subseteq Deletes
       THEN /\ users' = users \ {u} /\ verified' = verified \ {u}
            /\ via' = [w \in Users |-> IF w = u THEN Nobody ELSE via[w]]
            /\ invites' = [c \in Codes |-> IF invites[c].used = u THEN [invites[c] EXCEPT !.used = Nobody] ELSE invites[c]]
            /\ tokens' = [t \in DOMAIN tokens |-> IF tokens[t].of = u THEN [tokens[t] EXCEPT !.of = Nobody] ELSE tokens[t]]
            /\ profiles' = [p \in DOMAIN profiles |->
                              IF p \in Own(u) THEN [of |-> Nobody, active |-> FALSE] ELSE profiles[p]]
            /\ marks' = marks \ Own(u)
            /\ UNCHANGED saved /\ refused' = {}
       ELSE /\ refused' = Rows(u) \ Deletes
            /\ UNCHANGED <<account, tokens, belongings>>
    /\ UNCHANGED <<request, spent, raced>>

Next ==
    \/ \E c \in Clients : RegisterCommit(c) \/ TokenCommit(c) \/ BuildCommit(c)
    \/ \E c \in Clients, u \in Users, code \in Codes \union {Nobody} : RegisterRead(c, u, code)
    \/ \E c \in Clients, t \in DOMAIN tokens : TokenRead(c, t)
    \/ \E c \in Clients, u \in Owners : BuildRead(c, u)
    \/ \E u \in Users : Access(u)
    \/ \E u \in Owners : Save(u) \/ Unsave(u)
    \/ \E u \in Users \union {Admin} : Erase(u)
    \/ \E u \in Users, kind \in {"reset", "verify"} : Forgot(u, kind)
    \/ \E code \in Codes : CreateInvite(code)
    \/ \E p \in DOMAIN profiles : Bookmark(p)
    \/ Carry

-----------------------------------------------------------------------------
(* Properties.                                                             *)

\* No token works twice, no two accounts came in by one invite, no account has two
\* active profiles, unless two requests read the same before either wrote: also not
\* across erasure and a second registration of the same address.
OnlyOnce ==
    ~raced => /\ \A t \in DOMAIN spent : spent[t] <= 1
              /\ \A c, d \in Users : c # d /\ via[c] # Nobody => via[c] # via[d]
              /\ \A u \in users : Cardinality(Active(u)) <= 1

\* docs/BETA_CHECKLIST.md:49: DELETE /api/account erases the account.
ErasureSucceeds == refused = {}
=============================================================================
