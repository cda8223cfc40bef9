-------------------------- MODULE SlackWorkspaces --------------------------
(* Slack's workspaces (slack/adapter.py): which token an event is handled      *)
(* with, when installations come, go and are replaced and a bot_token resolver  *)
(* rotates; and what the adapter remembers of each workspace: its users, an      *)
(* index of their names for outgoing mentions, and the previews of links.        *)
(* Several requests are handled at once, each in a context of its own.           *)
EXTENDS Integers, FiniteSets, Sequences

CONSTANTS Request,    \* requests handled at the same time
          MaxChanges  \* bound on rotations, installations, renamings and cache expiries

VARIABLES
    mode,       \* how tokens are had: a "sync" or "async" resolver, or per workspace ("multi")
    event,      \* of each request: the installation it is for, and what its payload names
    installed,  \* the version of each team's stored token, 0 for none
    current,    \* the version the resolver gives now
    cache,      \* _default_bot_token_cache: the version resolved last, 0 for none
    context,    \* _request_context of each request: its team, and the version of its token
    resolved,   \* _resolved_default_token of each request
    pc, asked,  \* where each request stands, and the version its resolver was asked for
    since,      \* the versions when each request arrived
    calls,      \* the API calls made: request, team, version
    names,      \* the name each user of each team bears
    borne,      \* the names each of them has borne
    profile,    \* slack:user: -- the name cached for a user of a scope, or none
    index,      \* slack:user-by-name: -- the users of a scope by name
    unfurls,    \* slack:unfurls: -- the team whose previews are kept for a scope
    of,         \* the user a request looks up
    seen,       \* what a request read: the profile of a user, and whose previews
    mentioned,  \* the user an outgoing mention of a name became, per request
    changes

vars == <<mode, event, installed, current, cache, context, resolved, pc, asked, since, calls, names, borne,
          profile, index, unfurls, of, seen, mentioned, changes>>
tokens == <<installed, current, cache, context, resolved, asked, since>>
people == <<names, borne, profile, index, unfurls>>

None == "none"
Team == {"home", "away"}
User == {"u1", "u2"}
Name == {"ann", "bob"}
Scope == Team \cup {None}     \* None: keys without a scope

\* authorizations[0] says which installation an event is for; the envelope may
\* name the other workspace of a shared channel.  Older payloads have only that.
Event(to, auth, top) == [to |-> to, auth |-> auth, top |-> top]
Events == {Event("home", "home", "away"), Event("away", "away", "home"), Event("home", None, "home")}
MutInstallation(r) == event[r].top
Installation(r) == IF event[r].auth # None THEN event[r].auth ELSE event[r].top

NoMention == [user |-> None, name |-> None]
NoContext == [team |-> None, version |-> 0]
Stored(t) == [team |-> t, version |-> installed[t]]

Init ==
    /\ mode \in {"sync", "async", "multi"}
    /\ event \in [Request -> IF mode = "multi" THEN Events ELSE {Event("home", "home", "home")}]
    /\ installed = [t \in Team |-> IF mode = "multi" THEN 1 ELSE 0]
    /\ current = 1 /\ cache = 0
    /\ context = [r \in Request |-> NoContext] /\ resolved = [r \in Request |-> 0]
    /\ pc = [r \in Request |-> "idle"] /\ asked = [r \in Request |-> 0]
    /\ since = [r \in Request |-> [current |-> 0, installed |-> installed]]
    /\ calls = {}
    /\ names = [t \in Team |-> [u \in User |-> IF u = "u1" /\ t = "home" THEN "ann" ELSE "bob"]]
    /\ borne = [t \in Team |-> [u \in User |-> {names[t][u]}]]
    /\ profile = [s \in Scope |-> [u \in User |-> None]]
    /\ index = [s \in Scope |-> [n \in Name |-> {}]]
    /\ unfurls = [s \in Scope |-> {}]
    /\ of = [r \in Request |-> None] /\ seen = [r \in Request |-> [name |-> None, previews |-> {}]]
    /\ mentioned = [r \in Request |-> NoMention] /\ changes = 0

----------------------------------------------------------------------------
\* A request.  In a single workspace the resolver is called, and awaited if it
\* is asynchronous; its answer goes into the request's own variable and into
\* the cache of the process.  Otherwise the installation is looked up, and an
\* event whose installation is not there is acknowledged and dropped.
Arrive(r) ==
    /\ pc[r] = "idle"
    /\ since' = [since EXCEPT ![r] = [current |-> current, installed |-> installed]]
    /\ asked' = [asked EXCEPT ![r] = IF mode = "async" THEN current ELSE 0]
    /\ IF mode = "sync"
       THEN /\ cache' = current /\ resolved' = [resolved EXCEPT ![r] = current]
            /\ pc' = [pc EXCEPT ![r] = "handling"]
       ELSE pc' = [pc EXCEPT ![r] = "resolving"] /\ UNCHANGED <<cache, resolved>>
    /\ UNCHANGED <<mode, event, installed, current, context, of, calls, people, seen, mentioned, changes>>

MutResolverAnswers(r) ==
    /\ mode = "async" /\ pc[r] = "resolving"
    /\ cache' = asked[r] /\ UNCHANGED resolved
    /\ pc' = [pc EXCEPT ![r] = "handling"]
    /\ UNCHANGED <<mode, event, installed, current, context, asked, since, of, calls, people, seen, mentioned, changes>>

ResolverAnswers(r) ==
    /\ mode = "async" /\ pc[r] = "resolving"
    /\ cache' = asked[r] /\ resolved' = [resolved EXCEPT ![r] = asked[r]]
    /\ pc' = [pc EXCEPT ![r] = "handling"]
    /\ UNCHANGED <<mode, event, installed, current, context, asked, since, of, calls, people, seen, mentioned, changes>>

LookUpInstallation(r) ==
    /\ mode = "multi" /\ pc[r] = "resolving"
    /\ IF installed[Installation(r)] = 0
       THEN pc' = [pc EXCEPT ![r] = "dropped"] /\ UNCHANGED context
       ELSE /\ context' = [context EXCEPT ![r] = Stored(Installation(r))]
            /\ pc' = [pc EXCEPT ![r] = "handling"]
    /\ UNCHANGED <<mode, event, installed, current, cache, resolved, asked, since, of, calls, people, seen, mentioned, changes>>

MutToken(r) ==
    IF context[r].version > 0 THEN context[r]
    ELSE [team |-> "home", version |-> IF mode = "sync" THEN current ELSE cache]

\* _get_token: the request's context, then its resolved token, then a
\* synchronous resolver, then the cache.
Token(r) ==
    IF context[r].version > 0 THEN context[r]
    ELSE [team |-> "home",
          version |-> IF resolved[r] > 0 THEN resolved[r] ELSE IF mode = "sync" THEN current ELSE cache]

\* _installation_cache_scope.
MutCacheScope(r) == None
CacheScope(r) == IF context[r].version > 0 THEN context[r].team ELSE None

\* Whether a token still works: one that was replaced is revoked.
Works(t) == t.version = IF mode = "multi" THEN installed[t.team] ELSE current

\* _lookup_user: the cached profile, or users.info with the request's token; a
\* failure is answered with the user's id and not cached.
LookUp(r, u) ==
    LET t == Token(r)
        s == CacheScope(r)
    IN  /\ pc[r] = "handling"
        /\ IF profile[s][u] # None
           THEN /\ seen' = [seen EXCEPT ![r].name = profile[s][u]]
                /\ pc' = [pc EXCEPT ![r] = "previews"]
                /\ UNCHANGED <<calls, of>>
           ELSE /\ calls' = calls \cup {[request |-> r, team |-> t.team, version |-> t.version]}
                /\ IF Works(t)
                   THEN /\ seen' = [seen EXCEPT ![r].name = names[t.team][u]]
                        /\ pc' = [pc EXCEPT ![r] = "storing"] /\ of' = [of EXCEPT ![r] = u]
                   ELSE pc' = [pc EXCEPT ![r] = "previews"] /\ UNCHANGED <<seen, of>>
        /\ UNCHANGED <<mode, event, tokens, people, mentioned, changes>>

StoreProfile(r) ==
    /\ pc[r] = "storing" /\ profile' = [profile EXCEPT ![CacheScope(r)][of[r]] = seen[r].name]
    /\ pc' = [pc EXCEPT ![r] = "indexing"]
    /\ UNCHANGED <<mode, event, tokens, of, calls, names, borne, index, unfurls, seen, mentioned, changes>>

\* The reverse index, read and appended to; a user appended twice counts once.
IndexName(r) ==
    /\ pc[r] = "indexing" /\ index' = [index EXCEPT ![CacheScope(r)][seen[r].name] = @ \cup {of[r]}]
    /\ pc' = [pc EXCEPT ![r] = "previews"]
    /\ UNCHANGED <<mode, event, tokens, of, calls, names, borne, profile, unfurls, seen, mentioned, changes>>

\* A message_changed event of the request's installation brings the previews of
\* the links of a message; the message itself polls for them for a while.
CacheUnfurls(r) ==
    /\ pc[r] = "previews" /\ unfurls' = [unfurls EXCEPT ![CacheScope(r)] = @ \cup {Token(r).team}]
    /\ pc' = [pc EXCEPT ![r] = "mention"]
    /\ UNCHANGED <<mode, event, tokens, of, calls, names, borne, profile, index, seen, mentioned, changes>>

EnrichLinks(r) ==
    /\ pc[r] = "previews" /\ seen' = [seen EXCEPT ![r].previews = unfurls[CacheScope(r)]]
    /\ pc' = [pc EXCEPT ![r] = "mention"]
    /\ UNCHANGED <<mode, event, tokens, of, calls, people, mentioned, changes>>

\* _resolve_outgoing_mentions: a name with one user becomes that user, one with
\* several the only one who takes part in the thread; the message is posted.
Mention(r, n) ==
    LET users == index[CacheScope(r)][n]
        chosen == {u \in users : users = {u} \/ u = "u1"}   \* u1 takes part in the thread
        t == Token(r)
    IN  /\ pc[r] = "mention"
        /\ mentioned' = [mentioned EXCEPT ![r] = IF Cardinality(chosen) = 1
                                                THEN [user |-> CHOOSE u \in chosen : TRUE, name |-> n] ELSE NoMention]
        /\ calls' = calls \cup {[request |-> r, team |-> t.team, version |-> t.version]}
        /\ pc' = [pc EXCEPT ![r] = "done"]
        \* invalid_auth: _invalidate_client forgets a resolved token that was revoked
        /\ IF mode # "multi" /\ ~Works(t)
           THEN /\ cache' = IF cache = t.version THEN 0 ELSE cache
                /\ resolved' = [resolved EXCEPT ![r] = IF @ = t.version THEN 0 ELSE @]
           ELSE UNCHANGED <<cache, resolved>>
        /\ UNCHANGED <<mode, event, installed, current, context, asked, since, of, people, seen, changes>>

----------------------------------------------------------------------------
\* Around the requests: set_installation with a token never seen before,
\* delete_installation, the rotation of the resolver's token, a user who changes
\* names, the end of a cache entry.
Reinstall(t) ==
    /\ mode = "multi" /\ \E v \in {0, changes + 2} : installed' = [installed EXCEPT ![t] = v]
    /\ UNCHANGED <<mode, event, current, cache, context, resolved, pc, asked, since, of, calls, people, seen, mentioned>>

Rotate ==
    /\ mode # "multi" /\ current' = current + 1
    /\ UNCHANGED <<mode, event, installed, cache, context, resolved, pc, asked, since, of, calls, people, seen, mentioned>>

Rename(t, u, n) ==
    /\ names[t][u] # n /\ names' = [names EXCEPT ![t][u] = n] /\ borne' = [borne EXCEPT ![t][u] = @ \cup {n}]
    /\ UNCHANGED <<mode, event, tokens, pc, of, calls, profile, index, unfurls, seen, mentioned>>

Expire(s, u) ==
    /\ profile[s][u] # None /\ profile' = [profile EXCEPT ![s][u] = None]
    /\ UNCHANGED <<mode, event, tokens, pc, of, calls, names, borne, index, unfurls, seen, mentioned>>

Step(r) ==
    \/ Arrive(r) \/ ResolverAnswers(r) \/ LookUpInstallation(r) \/ CacheUnfurls(r) \/ EnrichLinks(r)
    \/ StoreProfile(r) \/ IndexName(r) \/ (\E u \in User : LookUp(r, u))
    \/ \E n \in Name : Mention(r, n)

Change ==
    /\ changes < MaxChanges /\ changes' = changes + 1
    /\ \/ Rotate \/ (\E t \in Team : Reinstall(t))
       \/ \E t \in Team, u \in User, n \in Name : Rename(t, u, n)
       \/ \E s \in Scope, u \in User : Expire(s, u)

Settled == \A r \in Request : pc[r] \in {"done", "dropped"}
Next == (\E r \in Request : Step(r)) \/ Change \/ (Settled /\ UNCHANGED vars)

----------------------------------------------------------------------------
TypeOK ==
    /\ mode \in {"sync", "async", "multi"} /\ current \in 1 .. MaxChanges + 1 /\ cache \in 0 .. MaxChanges + 1
    /\ installed \in [Team -> 0 .. MaxChanges + 1] /\ changes \in 0 .. MaxChanges
    /\ \A r \in Request :
          pc[r] \in {"idle", "resolving", "handling", "storing", "indexing", "previews", "mention", "done", "dropped"}
    /\ profile \in [Scope -> [User -> Name \cup {None}]] /\ index \in [Scope -> [Name -> SUBSET User]]

\* Every call is made with the token of the installation the event was meant
\* for, and with none older than the request -- whatever other requests, of
\* other workspaces or with newer tokens, are handled in between.
CallsUseTheirToken ==
    \A c \in calls :
        /\ c.team = event[c.request].to /\ c.version > 0
        /\ c.version >= IF mode = "multi" THEN since[c.request].installed[c.team] ELSE since[c.request].current

\* What a request reads about a user, and the previews it shows, come from its
\* own workspace, where the same ids may name others.
ProfilesStayHome ==
    \A r \in Request :
        LET team == event[r].to IN
        /\ seen[r].name # None => \E u \in User : seen[r].name \in borne[team][u]
        /\ seen[r].previews \subseteq {team}
        /\ \A u \in User : profile[CacheScope(r)][u] # None => profile[CacheScope(r)][u] \in borne[team][u]

\* A name becomes a mention only of a user of that workspace who bears it or bore
\* it -- the index lives longer than a profile.
MentionsMeetTheirUser ==
    \A r \in Request :
        mentioned[r] # NoMention =>
            mentioned[r].name \in borne[event[r].to][mentioned[r].user]

WorkspacesAreApart == TypeOK /\ CallsUseTheirToken /\ ProfilesStayHome /\ MentionsMeetTheirUser
=============================================================================
