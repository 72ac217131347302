----------------------------- MODULE ParamLayout -----------------------------
(***************************************************************************)
(* The parameters of DIPP and their places in the storage file: ids        *)
(* (dipp_paramids.h), addresses (vmem_storage.h), sizes and callbacks      *)
(* (dipp_config_param.h, dipp_error_param.h, dipp_process_param.h,         *)
(* vmem_upload_param.h). The parameter pipeline_run is kept in memory only.*)
(***************************************************************************)
EXTENDS Integers, Sequences

DATA_PARAM_SIZE == 188
STORAGE_SIZE == 10000

PARAMID_PIPELINE_RUN == 1
PARAMID_ERROR_LOG == 2
PARAMID_RADIO_NODE_ID == 3
PARAMID_MODULE_TIMEOUT == 4
PARAMID_PIPELINE_CONFIG == <<10, 11, 12, 13, 14, 15>>
PARAMID_MODULE_PARAM ==
  <<30, 31, 32, 33, 34, 35, 36, 37, 38, 39, 40, 41, 42, 43, 44, 45, 46, 47, 48, 49>>

\* Mutant: one less.
PIPELINE_PARAMID_OFFSET_OneLess == 9

PIPELINE_PARAMID_OFFSET == 10

MODULE_PARAMID_OFFSET == 30
MAX_PIPELINES == 6
MAX_MODULES == 20

VMEM_CONF_PIPELINE == <<\h00, \hBC, \h178, \h234, \h2F0, \h3AC>>
VMEM_CONF_MODULE ==
  <<\h468, \h524, \h5E0, \h69C, \h758, \h814, \h8D0, \h98C, \hA48, \hB04,
    \hBC0, \hC7C, \hD38, \hDF4, \hEB0, \hF6C, \h1028, \h10E4, \h11A0, \h125C>>
VMEM_ERROR_CODE == \h1318
VMEM_RADIO_NODE_ID == \h131C
\* Mutant: one byte too early.
VMEM_MODULE_TIMEOUT_Early == \h131C
VMEM_MODULE_TIMEOUT == \h131D

\* A param_t whose value is in the file.
Param(id, size, address, callback) ==
  [id |-> id, size |-> size, address |-> address, callback |-> callback]

pipeline_config_params ==
  {Param(PARAMID_PIPELINE_CONFIG[k], DATA_PARAM_SIZE, VMEM_CONF_PIPELINE[k], "setup_pipeline") :
     k \in 1 .. 6}

module_config_params ==
  {Param(PARAMID_MODULE_PARAM[k], DATA_PARAM_SIZE, VMEM_CONF_MODULE[k], "setup_module_config") :
     k \in 1 .. 20}

log_status == Param(PARAMID_ERROR_LOG, 4, VMEM_ERROR_CODE, "none")
radio_node_id == Param(PARAMID_RADIO_NODE_ID, 1, VMEM_RADIO_NODE_ID, "none")
module_timeout == Param(PARAMID_MODULE_TIMEOUT, 4, VMEM_MODULE_TIMEOUT, "none")

Stored ==
  pipeline_config_params \cup module_config_params \cup
    {log_status, radio_node_id, module_timeout}

\* The bytes of the file that a parameter occupies.
Bytes(param) == param.address .. param.address + param.size - 1

\* The entry of the tables of dipp_config.c that a configuration is for.
Index(param) ==
  IF param.callback = "setup_pipeline" THEN param.id - PIPELINE_PARAMID_OFFSET
                                       ELSE param.id - MODULE_PARAMID_OFFSET
=============================================================================
