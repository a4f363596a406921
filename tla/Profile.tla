------------------------------ MODULE Profile ------------------------------
(***************************************************************************)
(* The learner's profile (handler/profile.go, db/profile.go), kept in the  *)
(* settings column of the account.  Settings hold the profile in a nested  *)
(* object; accounts of the first version have the same keys at the top,    *)
(* where they are left for good.                                           *)
(*                                                                         *)
(* A patch reads the settings, changes its copy and stores all of it: the  *)
(* statements take no lock, so patches from two tabs may cross.  Without   *)
(* authentication the account of the local learner is made when it is      *)
(* first needed.                                                           *)
(***************************************************************************)
EXTENDS Naturals, FiniteSets

CONSTANTS
    ProfileTabs,     \* tabs with at most one patch under way each
    Preferences,     \* keys of the client's own preferences
    EnabledLanguages, OtherLanguages, FirstLanguage,
    MaxPatches

ASSUME LanguageAssumption == FirstLanguage \in EnabledLanguages

VARIABLES
    settings,    \* users.settings: the old keys, the nested ones, whether there are any
    account,     \* whether the account exists
    patch,       \* tab -> its PATCH of the profile
    patches,     \* patches so far
    said         \* field -> what the last acknowledged patch made of it, if that is certain

profileVars == <<settings, account, patch, patches, said>>

Unset == "unset"        \* no such key
Empty == "empty"        \* the empty string
Uncertain == "uncertain"

OwnFields == {"active_language", "llm_model", "tts_model"}
Fields == OwnFields \cup Preferences

ASSUME FieldAssumption ==
    /\ OwnFields \cap Preferences = {}
    /\ {Unset, Empty} \cap EnabledLanguages = {}

NoFields == [f \in Fields |-> Unset]

\* The values a patch of a field may carry; null deletes a preference.
PatchValues(f) ==
    CASE f = "active_language" -> EnabledLanguages \cup OtherLanguages
      [] f \in {"llm_model", "tts_model"} -> {"chosen", Empty}
      [] OTHER -> {"chosen", Unset}

NoPatch == [pc |-> "idle", field |-> "active_language", value |-> Empty, copy |-> NoFields, crossed |-> FALSE]

\* An account of the first version chose a language and a model.
OldKeys == [NoFields EXCEPT !["active_language"] = FirstLanguage, !["llm_model"] = "old"]

ProfileInit ==
    /\ account \in BOOLEAN
    /\ settings \in {[old |-> o, new |-> NoFields, saved |-> FALSE] : o \in {NoFields} \cup IF account THEN {OldKeys} ELSE {}}
    /\ patch = [t \in ProfileTabs |-> NoPatch]
    /\ patches = 0
    /\ said = [f \in Fields |-> Uncertain]

\* An empty string counts as a value for the speech model only.
HasSetting(f, value) == value # Unset /\ (value # Empty \/ f = "tts_model")

DefaultValue(f) == IF f = "active_language" THEN FirstLanguage ELSE Empty

X_OldKeysWin(s) ==
    [f \in Fields |->
        IF f \in Preferences THEN (IF s.saved THEN s.new[f] ELSE s.old[f])
        ELSE IF HasSetting(f, s.old[f]) THEN s.old[f]
        ELSE IF HasSetting(f, s.new[f]) THEN s.new[f]
        ELSE DefaultValue(f)]

\* The profile that settings stand for: nested keys first, then old ones, then the
\* defaults; the preferences are taken from one of the two as a whole.
ProfileFromSettings(s) ==
    [f \in Fields |->
        IF f \in Preferences THEN (IF s.saved THEN s.new[f] ELSE s.old[f])
        ELSE IF HasSetting(f, s.new[f]) THEN s.new[f]
        ELSE IF HasSetting(f, s.old[f]) THEN s.old[f]
        ELSE DefaultValue(f)]

SettingsWithProfile(s, profile) == [s EXCEPT !.new = profile, !.saved = TRUE]

-----------------------------------------------------------------------------
\* The patch is decoded.
DecodeProfilePatch(t) ==
    /\ patch[t].pc = "idle"
    /\ patches < MaxPatches
    /\ patches' = patches + 1
    /\ \E f \in Fields : \E v \in PatchValues(f) :
          patch' = [patch EXCEPT ![t] = [NoPatch EXCEPT !.pc = "check", !.field = f, !.value = v]]
    /\ UNCHANGED <<settings, account, said>>

\* A language has to be enabled.
CheckLanguage(t) ==
    /\ patch[t].pc = "check"
    /\ patch' = [patch EXCEPT ![t] =
                    IF patch[t].field = "active_language" /\ patch[t].value \notin EnabledLanguages
                    THEN NoPatch ELSE [@ EXCEPT !.pc = "read"]]
    /\ UNCHANGED <<settings, account, patches, said>>

ReadSettings(t) ==
    /\ patch[t].pc = "read"
    /\ patch' = [patch EXCEPT ![t] =
                    IF account THEN [@ EXCEPT !.pc = "store", !.copy = ProfileFromSettings(settings)]
                    ELSE [@ EXCEPT !.pc = "ensure"]]
    /\ UNCHANGED <<settings, account, patches, said>>

\* EnsureLocalUser looks again and then inserts; the insertion fails if another one came
\* first, and the request with it.
EnsureLocalUser(t) ==
    /\ patch[t].pc = "ensure"
    /\ patch' = [patch EXCEPT ![t].pc = IF account THEN "check" ELSE "create"]
    /\ UNCHANGED <<settings, account, patches, said>>

CreateUser(t) ==
    /\ patch[t].pc = "create"
    /\ account' = TRUE
    /\ patch' = [patch EXCEPT ![t] = IF account THEN NoPatch ELSE [@ EXCEPT !.pc = "check"]]
    /\ UNCHANGED <<settings, patches, said>>

ApplyProfilePatch(profile, field, value) == [profile EXCEPT ![field] = value]

\* The settings are those that were read, with the patched profile.  Patches whose copy
\* is older than this from now on cross it.
UpdateUserProfile(t) ==
    LET p == patch[t] IN
    /\ p.pc = "store"
    /\ settings' = SettingsWithProfile(settings, ApplyProfilePatch(p.copy, p.field, p.value))
    /\ said' = [f \in Fields |-> IF f = p.field THEN p.value
                                 ELSE IF p.crossed THEN Uncertain ELSE said[f]]
    /\ patch' = [u \in ProfileTabs |->
                    IF u = t THEN NoPatch
                    ELSE [patch[u] EXCEPT !.crossed = @ \/ patch[u].pc = "store"]]
    /\ UNCHANGED <<account, patches>>

\* The request or the server ends.
PatchDies(t) ==
    /\ patch[t].pc # "idle"
    /\ patch' = [patch EXCEPT ![t] = NoPatch]
    /\ UNCHANGED <<settings, account, patches, said>>

ProfileNext ==
    \E t \in ProfileTabs :
        \/ DecodeProfilePatch(t) \/ CheckLanguage(t) \/ ReadSettings(t) \/ EnsureLocalUser(t)
        \/ CreateUser(t) \/ UpdateUserProfile(t) \/ PatchDies(t)

ProfileSpec == ProfileInit /\ [][ProfileNext]_profileVars

-----------------------------------------------------------------------------
\* The model that was chosen in the first version comes back when it is cleared: an empty
\* nested value does not hide an old one.
Resurfaces(f) == f = "llm_model" /\ said[f] = Empty /\ settings.old[f] # Unset

\* "Nil pointers mean leave the current value unchanged" (domain/profile.go:20): what a
\* learner was told a field is stays, whatever other fields are patched from whatever tab,
\* until the field is patched or a patch that crossed another one is stored.
PatchesStick ==
    \A f \in Fields : said[f] # Uncertain /\ ~Resurfaces(f)
        => ProfileFromSettings(settings)[f] = said[f]
=============================================================================
