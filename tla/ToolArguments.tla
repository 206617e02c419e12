--------------------------- MODULE ToolArguments ----------------------------
(***************************************************************************)
(* The functions on files (io.rs), merge tracking (merge.rs), translation   *)
(* (subst.rs), tables of properties (hash.rs), options (config.rs) and      *)
(* differences (diff.rs) that give C only arguments.                        *)
(***************************************************************************)
EXTENDS CallSteps

-----------------------------------------------------------------------------
\* Paths are converted with unwrap().
remove_file                 == Direct
create_uniqe_link           == Direct
read_link                   == Direct
copy_file                   == Direct
copy_perms                  == Direct
copy_link                   == Direct
make_dir_recursively        == Direct
dir_empty                   == Direct
append_file                 == Direct
set_file_read_only          == Direct
set_file_read_write         == Direct
is_file_executable          == Direct
file_affected_time          == Direct
set_file_affected_time      == Direct
filesizes_different_p       == Direct
filesizes_three_different_p == Direct
files_contents_same_p       == Direct
files_contents_three_same_p == Direct
file_create                 == Direct
file_create_bytes           == Direct
file_create_empty           == Direct
dir_file_copy               == Direct

streams_contents_same == Asked
temp_dir              == Asked

\* Merge sources and mergeinfo: tables and arrays are in the pool of the call.
merge                == Converted
merge_peg            == Converted
get_merged_mergeinfo == Converted
parse_mergeinfo      == Converted
mergeinfo_to_string  == Converted
mergeinfo_diff       == Converted
mergeinfo_merge      == Converted
mergeinfo_remove     == Converted
mergeinfo_intersect  == Converted

\* Keywords are copied into the pool of the call.
build_keywords   == Direct
translate_stream == Direct
translate_string == Direct

copy_and_translate == Converted

\* The text is converted after the call too.
translate_cstring == << Try, Arg("args"), Call, Check, Try, Ok >>

\* What C answers is no error.
eol_style_from_value == << Arg("args"), Tell, Ok >>
translation_required == << Arg("args"), Tell, Ok >>
keywords_differ      == << Arg("args"), Tell, Ok >>

\* Keys are strings of the function, values in its pool.
read              == Converted
write             == Converted
read_incremental  == Converted
write_incremental == Converted
from_cstring_keys == Converted

get_bool_value == Converted
get_int_value  == Converted

get_string_value == << Try, Arg("args"), Tell, Ok >>
set_value        == << Try, Arg("args"), Tell, Ok >>
has_section      == << Try, Arg("args"), Tell, Ok >>

\* Headers and paths are converted with `?`.
file_output_unified              == Converted
file_output_merge                == Converted
file_output_unified_with_options == Converted

-----------------------------------------------------------------------------
Functions ==
  [ remove_file |-> remove_file, create_uniqe_link |-> create_uniqe_link,
    read_link |-> read_link, copy_file |-> copy_file, copy_perms |-> copy_perms,
    copy_link |-> copy_link, make_dir_recursively |-> make_dir_recursively,
    dir_empty |-> dir_empty, append_file |-> append_file,
    set_file_read_only |-> set_file_read_only,
    set_file_read_write |-> set_file_read_write,
    is_file_executable |-> is_file_executable,
    file_affected_time |-> file_affected_time,
    set_file_affected_time |-> set_file_affected_time,
    filesizes_different_p |-> filesizes_different_p,
    filesizes_three_different_p |-> filesizes_three_different_p,
    files_contents_same_p |-> files_contents_same_p,
    files_contents_three_same_p |-> files_contents_three_same_p,
    file_create |-> file_create, file_create_bytes |-> file_create_bytes,
    file_create_empty |-> file_create_empty, dir_file_copy |-> dir_file_copy,
    streams_contents_same |-> streams_contents_same, temp_dir |-> temp_dir,
    merge |-> merge, merge_peg |-> merge_peg,
    get_merged_mergeinfo |-> get_merged_mergeinfo,
    parse_mergeinfo |-> parse_mergeinfo,
    mergeinfo_to_string |-> mergeinfo_to_string,
    mergeinfo_diff |-> mergeinfo_diff, mergeinfo_merge |-> mergeinfo_merge,
    mergeinfo_remove |-> mergeinfo_remove,
    mergeinfo_intersect |-> mergeinfo_intersect,
    build_keywords |-> build_keywords, translate_stream |-> translate_stream,
    translate_string |-> translate_string,
    copy_and_translate |-> copy_and_translate,
    translate_cstring |-> translate_cstring,
    eol_style_from_value |-> eol_style_from_value,
    translation_required |-> translation_required,
    keywords_differ |-> keywords_differ, read |-> read, write |-> write,
    read_incremental |-> read_incremental,
    write_incremental |-> write_incremental,
    from_cstring_keys |-> from_cstring_keys, get_bool_value |-> get_bool_value,
    get_int_value |-> get_int_value, get_string_value |-> get_string_value,
    set_value |-> set_value, has_section |-> has_section,
    file_output_unified |-> file_output_unified,
    file_output_merge |-> file_output_merge,
    file_output_unified_with_options |-> file_output_unified_with_options ]
=============================================================================
