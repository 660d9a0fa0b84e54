--------------------------------- MODULE Log --------------------------------
(***************************************************************************)
(* The levels of the log (iotx_log_api.c): a list of the levels set by tag *)
(* and a cache in front of it, a heap ordered by the generation in which   *)
(* an entry was last looked up.  The list is searched by the text of a     *)
(* tag, the cache by the address of the string, of which there may be      *)
(* several with one text (two files of the SDK call themselves             *)
(* "sdk:httpc").  The mutex covers every operation as a whole.             *)
(***************************************************************************)
EXTENDS Integers, Sequences

CONSTANTS LogTags,           \* the strings, by address
          LogText,           \* what each says
          LogLevels,         \* levels set
          TAG_CACHE_SIZE,    \* 2**n - 1
          LogGenerationsMax  \* bound: generations, 2^29 in the code

ASSUME LogAssumption ==
  /\ TAG_CACHE_SIZE \in Nat /\ TAG_CACHE_SIZE >= 3 /\ TAG_CACHE_SIZE % 2 = 1
  /\ LogLevels \subseteq Nat /\ LogGenerationsMax \in Nat

VARIABLES s_log_default_level,
          s_log_tags,   \* the list: a level for each text that has a node
          s_log_cache,  \* the entries in use
          s_log_cache_max_generation

logVars == <<s_log_default_level, s_log_tags, s_log_cache,
             s_log_cache_max_generation>>

Texts == {LogText[t] : t \in LogTags}
Entries == 1 .. Len(s_log_cache)
Unset == -1  \* a text without a node

(* What the list and the default say of a text.                            *)
get_uncached_log_level(text) ==
  IF s_log_tags[text] # Unset THEN s_log_tags[text] ELSE s_log_default_level

-----------------------------------------------------------------------------
(* heap_bubble_down: the entry goes down to the bottom, every time past    *)
(* the older one of its two children, whatever it is itself.               *)
Swapped(cache, i, j) == [cache EXCEPT ![i] = cache[j], ![j] = cache[i]]

heap_bubble_down(cache, index) ==
  LET child(c, i) == IF c[2 * i].generation < c[2 * i + 1].generation
                       THEN 2 * i ELSE 2 * i + 1
      steps[k \in 0 .. TAG_CACHE_SIZE] ==
        IF k = 0 THEN [at |-> index, heap |-> cache]
        ELSE LET s == steps[k - 1]
             IN  IF 2 * s.at + 1 > TAG_CACHE_SIZE THEN s
                 ELSE [at |-> child(s.heap, s.at),
                       heap |-> Swapped(s.heap, s.at, child(s.heap, s.at))]
  IN  steps[TAG_CACHE_SIZE].heap

(* get_cached_log_level: the first entry with this address; a full cache   *)
(* notes that it was looked up.                                            *)
Hit(tag) == {i \in Entries : s_log_cache[i].tag = tag}

Refreshed(i) ==
  heap_bubble_down([s_log_cache EXCEPT ![i].generation = s_log_cache_max_generation], i)

(* add_to_cache: at the end, or in the place of the oldest.                *)
Added(tag, level) ==
  LET entry == [tag |-> tag, level |-> level, generation |-> s_log_cache_max_generation]
  IN  IF Len(s_log_cache) < TAG_CACHE_SIZE THEN Append(s_log_cache, entry)
      ELSE heap_bubble_down([s_log_cache EXCEPT ![1] = entry], 1)

-----------------------------------------------------------------------------
(* molmc_log_level_set.  Of the entries with the text only the first one   *)
(* is changed; without memory for the node nothing is.                     *)
LevelSet(tag, level) ==
  LET text == LogText[tag]
      same == {i \in Entries : LogText[s_log_cache[i].tag] = text}
  IN  /\ s_log_tags' = [s_log_tags EXCEPT ![text] = level]
      /\ s_log_cache' =
           [i \in Entries |->
             IF i \in same /\ \A j \in same : i <= j
               THEN [s_log_cache[i] EXCEPT !.level = level] ELSE s_log_cache[i]]
      /\ UNCHANGED <<s_log_default_level, s_log_cache_max_generation>>

(* Mutant: the cache is kept.                                              *)
LevelSetAllListed(level) ==
  /\ s_log_default_level' = level
  /\ s_log_tags' = [t \in Texts |-> Unset]
  /\ UNCHANGED <<s_log_cache, s_log_cache_max_generation>>

(* molmc_log_level_set("*"), clear_log_level_list.                         *)
LevelSetAll(level) ==
  /\ s_log_default_level' = level
  /\ s_log_tags' = [t \in Texts |-> Unset]
  /\ s_log_cache' = <<>>
  /\ s_log_cache_max_generation' = 0

(* molmc_log_write up to should_output, on a tag that is in the cache and  *)
(* on one that is not.                                                     *)
LogWriteHit(tag) ==
  /\ Hit(tag) # {} /\ s_log_cache_max_generation < LogGenerationsMax
  /\ IF Len(s_log_cache) = TAG_CACHE_SIZE
       THEN /\ s_log_cache' = Refreshed(CHOOSE i \in Hit(tag) : \A j \in Hit(tag) : i <= j)
            /\ s_log_cache_max_generation' = s_log_cache_max_generation + 1
       ELSE UNCHANGED <<s_log_cache, s_log_cache_max_generation>>
  /\ UNCHANGED <<s_log_default_level, s_log_tags>>

LogWriteMiss(tag) ==
  /\ Hit(tag) = {} /\ s_log_cache_max_generation < LogGenerationsMax
  /\ s_log_cache' = Added(tag, get_uncached_log_level(LogText[tag]))
  /\ s_log_cache_max_generation' = s_log_cache_max_generation + 1
  /\ UNCHANGED <<s_log_default_level, s_log_tags>>

-----------------------------------------------------------------------------
LogInit ==
  /\ s_log_default_level = 0
  /\ s_log_tags = [t \in Texts |-> Unset]
  /\ s_log_cache = <<>> /\ s_log_cache_max_generation = 0

LogNext ==
  \/ \E tag \in LogTags :
       \/ LogWriteHit(tag) \/ LogWriteMiss(tag)
       \/ \E level \in LogLevels : LevelSet(tag, level)
  \/ \E level \in LogLevels : LevelSetAll(level)

LogSpec == LogInit /\ [][LogNext]_logVars

-----------------------------------------------------------------------------
LogTypeOK ==
  /\ s_log_default_level \in LogLevels \cup {0}
  /\ s_log_tags \in [Texts -> LogLevels \cup {Unset}]
  /\ Len(s_log_cache) <= TAG_CACHE_SIZE
  /\ \A i \in Entries : s_log_cache[i] \in
       [tag : LogTags, level : LogLevels \cup {0}, generation : 0 .. LogGenerationsMax]

(* What the assertion in get_cached_log_level says of the heap: the entry  *)
(* that is replaced is the one looked up the longest time ago.             *)
CacheOrdered ==
  \A i \in Entries : i > 1 => s_log_cache[i \div 2].generation < s_log_cache[i].generation

(* A level set is what the next message of its tag is judged by, cached or *)
(* not, and an address is in the cache at most once.  Of a text with       *)
(* several addresses the second entry keeps its old level.                 *)
LevelsCurrent ==
  \A i \in Entries :
    LET tag == s_log_cache[i].tag
    IN  /\ \A j \in Entries : s_log_cache[j].tag = tag => j = i
        /\ (\A t \in LogTags : LogText[t] = LogText[tag] => t = tag) =>
             s_log_cache[i].level = get_uncached_log_level(LogText[tag])

(* The cache is never stale and never out of order, whatever comes between *)
(* two messages of a tag.                                                  *)
CacheFollowsLevels == CacheOrdered /\ LevelsCurrent

=============================================================================
