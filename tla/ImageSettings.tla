----------------------------- MODULE ImageSettings -----------------------------
(*****************************************************************************)
(* What the commands that edit an image's manifest promise, whatever the     *)
(* build mode: an edit that succeeds changes the one setting it names, an    *)
(* edit that fails changes nothing.  A command is a record: op is what it    *)
(* does, field the setting, and the rest its arguments.                      *)
(*****************************************************************************)
EXTENDS Sequences, Naturals, Assoc

VARIABLES
    settings,  \* the settings of the image, a record
    last,      \* the command that ran last
    exit       \* its exit code

vars == <<settings, last, exit>>

\* The setting x becomes v, the others stay.
Becomes(x, v) == settings' = [settings EXCEPT ![x] = v]

\* Every entry of the setting x that does not clash with the new one stays.
Replaces(x, new, Clash(_)) ==
    /\ new \in settings'[x]
    /\ \A e \in settings[x] \cup settings'[x] :
          e = new \/ Clash(e) \/ (e \in settings[x] /\ e \in settings'[x])
    /\ Becomes(x, settings'[x])

\* Entries of the setting x are gone, and only such as match.
Loses(x, Match(_)) ==
    /\ settings'[x] # settings[x]
    /\ settings'[x] \subseteq settings[x]
    /\ \A e \in settings[x] \ settings'[x] : Match(e)
    /\ Becomes(x, settings'[x])

AddMount(c) == /\ c.op = "add mount"
               /\ Replaces("mounts", c.new,
                     LAMBDA e : e.name = c.new.name \/ e.path = c.new.path)

RemoveMount(c) == /\ c.op = "remove mount"
                  /\ Loses("mounts", LAMBDA e : c.arg \in {e.name, e.path})

AddPort(c) == /\ c.op = "add port"
              /\ Replaces("ports", c.new,
                    LAMBDA e : \/ c.new.name \in {e.name, e.number}
                               \/ <<c.new.number, c.new.protocol>> = <<e.number, e.protocol>>)

\* A port goes by its name, its number, or its number and protocol.
RemovePort(c) == /\ c.op = "remove port"
                 /\ Loses("ports", LAMBDA e :
                       c.arg \in {<<e.name>>, <<e.number>>, <<e.number, e.protocol>>})

\* The order of dependencies counts; adding one again moves it to the end.
OtherDeps(n) == SelectSeq(settings.deps, LAMBDA d : d.name # n)

Dependencies(c) ==
    \/ c.op = "add dep" /\ Becomes("deps", Append(OtherDeps(c.new.name), c.new))
    \/ /\ c.op = "remove dep"
       /\ OtherDeps(c.name) # settings.deps
       /\ Becomes("deps", OtherDeps(c.name))

\* The tag of an image is its version label, or its reference.
Tag(c) ==
    /\ c.op = "tag"
    /\ IF "ref" \in DOMAIN settings
       THEN Becomes("ref", c.value)
       ELSE Becomes("labels", Put(settings.labels, c.version, c.value))

\* What the file says replaces what was there, and what it does not mention
\* stays; paths it lists are added.
Replace(c) ==
    /\ c.op = "replace"
    /\ DOMAIN settings' = DOMAIN settings
    /\ \A x \in DOMAIN settings \ {"mounts"} :
          settings'[x] = IF x \in DOMAIN c.file THEN c.file[x] ELSE settings[x]
    /\ settings.mounts \subseteq settings'.mounts
    /\ {e.path : e \in settings'.mounts \ settings.mounts} \subseteq c.file.volumes
    /\ c.file.volumes \subseteq {e.path : e \in settings'.mounts}

Promise(c) ==
    \/ c.op = "set" /\ Becomes(c.field, c.value)
    \/ c.op = "put" /\ Becomes(c.field, Put(settings[c.field], c.name, c.value))
    \/ /\ c.op = "take"
       /\ c.name \in DOMAIN settings[c.field]
       /\ Becomes(c.field, Without(settings[c.field], c.name))
    \/ AddMount(c) \/ RemoveMount(c) \/ AddPort(c) \/ RemovePort(c)
    \/ Dependencies(c) \/ Tag(c) \/ Replace(c)

Init == exit = 0

\* One command: it keeps its promise, or it fails and changes nothing.
Next == \/ exit' = 0 /\ Promise(last')
        \/ exit' # 0 /\ UNCHANGED settings

Spec == Init /\ [][Next]_vars
================================================================================
